---- MODULE Spec2Model ----
(***************************************************************************)
(* A model of the dependency binding and mapped-type expansion core of     *)
(* stc_ts_file_analyzer:                                                    *)
(*   analyzer/import.rs        load_normal_imports, insert_import_info,     *)
(*                             get_imported_items, handle_import,           *)
(*                             validate(RImportDecl)                        *)
(*   analyzer/types/mapped.rs  expand_mapped and its helpers                *)
(*   env.rs                    EnvFactory::simple, BuiltInGen::from_ts_libs *)
(*                                                                         *)
(* The specifications share the variables:                                 *)
(*   Spec        load_normal_imports with the rayon executor: one step per *)
(*               resolver iteration, per finished worker, per merge        *)
(*               iteration.                                                *)
(*   SpecBind    a whole run: load_normal_imports (the "no-threading"      *)
(*               build, one handler) followed by validate(RImportDecl) for *)
(*               each import declaration, in order.                        *)
(*   SpecMapped  expand_mapped applied to mapped types, and                *)
(*               get_property_names_for_mapped_type applied to types,      *)
(*               drawn from bounded sets.                                  *)
(*   SpecEnv     concurrent callers of EnvFactory::simple.                 *)
(*   SpecKeyof   expand_mapped_type_with_keyof, one step per call and per  *)
(*               return of the function.                                   *)
(***************************************************************************)
EXTENDS Integers, Sequences, FiniteSets, TLC

VARIABLES
    \* ---- inputs of a run (import.rs) ----
    is_builtin,         \* self.config.is_builtin
    edges,              \* what ImportFinder::find_imports returns: Seq of [ctxt]
    loader,             \* the Loader's answers, per edge: [module_id, circular, load]
    \* ---- load_normal_imports ----
    pc,                 \* position: "start","resolve","load","merge","done"
    idx,                \* index of the running for loop
    normal_imports,     \* Vec of (ctxt, dep_id, import)
    worker,             \* per normal edge: "running","done"
    import_results,     \* the collected Vec of (ctxt, dep_id, import, res)
    imports,            \* self.imports: (ctxt, dep) -> Type, the resolved-dependency cache
    insert_calls,       \* history: the insert_import_info calls made, in order
    finished_order,     \* history: the workers in the order they finished
    diags,              \* what storage.report received, in order
    \* ---- binder ----
    decls,              \* the import declarations validated so far (their specifiers)
    scope_vars,         \* names bound by declare_var: name -> Type
    declare_calls,      \* history: declare_var calls [span, name, ty, ok]
    type_regs,          \* history: register_type calls [name, ty]
    private_vars,       \* history: storage.store_private_var calls
    private_types,      \* history: storage.store_private_type calls
    unresolved_imports, \* self.data.unresolved_imports
    validate_results,   \* per validated declaration: TRUE for Ok(()), FALSE for Err
    \* ---- expand_mapped ----
    mapped_in,          \* the Mapped handed to expand_mapped, or the type handed
                        \* to get_property_names_for_mapped_type
    mapped_out,         \* what the call returned
    mapped_pc,          \* "idle"; "expand" -> "expanded" -> "expanded_again";
                        \* "names" -> "named"
    mapped_again,       \* what a second expand_mapped(mapped_in) returned
    symbols,            \* the types that names resolve to in the analyzer's scope
    \* ---- env.rs: EnvFactory::simple and BuiltInGen::from_ts_libs ----
    env_libs,           \* per caller: the libs argument of simple
    env_pc,             \* per caller: "idle"; "start" -> "cell" -> "init" -> "done"
                        \* or "panicked"
    env_key,            \* per caller: libs after sort and dedup
    env_builtin,        \* per caller: the Arc<BuiltIn> received, as Option
    env_panic,          \* per caller: the panic message that ended the call
    CACHE,              \* static CACHE: key -> cell
    cache_files,        \* the keys whose cache file exists on disk
    runs,               \* history: per key, the number of from_ts_libs calls begun
    \* ---- expand_mapped_type_with_keyof, call by call ----
    call_stack,         \* the keyof_operand argument of every call not yet returned,
                        \* outermost first
    keyof_ret,          \* what the call that returned last returned
    keyof_pc            \* "idle"; "call" (the innermost call starts), "return"
                        \* (the innermost call has its value), "done"

importVars == <<is_builtin, edges, loader, pc, idx, normal_imports, worker,
                import_results, imports, insert_calls, finished_order, diags>>
binderVars == <<decls, scope_vars, declare_calls, type_regs, private_vars,
                private_types, unresolved_imports, validate_results>>
mappedVars == <<mapped_in, mapped_out, mapped_pc, mapped_again, symbols>>
envVars == <<env_libs, env_pc, env_key, env_builtin, env_panic, CACHE, cache_files, runs>>
keyofVars == <<call_stack, keyof_ret, keyof_pc>>
vars == <<importVars, binderVars, mappedVars, envVars, keyofVars>>

-----------------------------------------------------------------------------
(* Bounds of the model *)

MaxEdges == 2
MaxDecls == 1
MaxSpecifiers == 2
MaxMembers == 2     \* members of a type literal
MaxOperands == 2    \* operands of a union or an intersection
MaxThreads == 2     \* concurrent callers of EnvFactory::simple
MaxDepth == 4       \* nested calls of expand_mapped_type_with_keyof that are followed

-----------------------------------------------------------------------------
(* Values *)

\* ModuleIds of the modules analysed together (consumers), and every ModuleId.
Consumers == {"main", "peer"}
ModuleIds == {"main", "dep"}
NoModule == "none"

AnyType == [tag |-> "Keyword", kind |-> "any"]

\* Export tables the Loader can hand back (module-shaped types).
ExportsA ==
    [tag |-> "Module", name |-> "A",
     vars |-> [x |-> [tag |-> "number"], default |-> [tag |-> "string"]],
     types |-> [x |-> <<[tag |-> "Interface", name |-> "x"],
                        [tag |-> "Namespace", name |-> "x"]>>]]
ExportsB ==
    [tag |-> "Module", name |-> "B",
     vars |-> <<>>,
     types |-> [default |-> <<[tag |-> "Class", name |-> "default"]>>]]
ExportTables == {ExportsA, ExportsB}

Ok(v) == [ok |-> TRUE, val |-> v]
Err(e) == [ok |-> FALSE, val |-> e]

\* The span of edge (declaration) i, and of its j-th specifier.
DeclSpan(i) == <<i, 0>>
SpecifierSpan(i, j) == <<i, j>>

ModuleNotFound(span) ==
    [kind |-> "ModuleNotFound", span |-> span, orig |-> "", id |-> ""]
ImportFailed(span, orig, id) ==
    [kind |-> "ImportFailed", span |-> span, orig |-> orig, id |-> id]
DeclarationError(span, id) ==
    [kind |-> "DeclarationError", span |-> span, orig |-> "", id |-> id]

\* The error value load_non_circular_dep fails with for edge i.
LoaderError(i) == ModuleNotFound(DeclSpan(i))

\* What the Loader can answer for edge i.  is_in_same_circular_group is asked
\* only for a resolved specifier, and load_non_circular_dep only for a normal one:
\* the answers never asked for are fixed.
LoaderAnswers(i) ==
    {[module_id |-> NoModule, circular |-> FALSE, load |-> Err(LoaderError(i))]}
    \cup {[module_id |-> d, circular |-> TRUE, load |-> Err(LoaderError(i))] : d \in ModuleIds}
    \cup {[module_id |-> d, circular |-> FALSE, load |-> l] :
            d \in ModuleIds, l \in {Err(LoaderError(i))} \cup {Ok(t) : t \in ExportTables}}

SeqsUpTo(S, n) == UNION {[1..k -> S] : k \in 0..n}

-----------------------------------------------------------------------------
(* load_normal_imports *)

\* self.imports.entry((ctxt, dep_module_id)).or_insert(ty)
insert_import_info_overwrite(imp, ctxt, dep_module_id, ty) ==
    [k \in DOMAIN imp \cup {<<ctxt, dep_module_id>>} |->
        IF k = <<ctxt, dep_module_id>> THEN ty ELSE imp[k]]

insert_import_info(imp, ctxt, dep_module_id, ty) ==
    IF <<ctxt, dep_module_id>> \in DOMAIN imp
    THEN imp
    ELSE [k \in DOMAIN imp \cup {<<ctxt, dep_module_id>>} |->
            IF k = <<ctxt, dep_module_id>> THEN ty ELSE imp[k]]

\* An iteration of the resolver loop that drops an unresolvable edge silently.
ResolveOneWithoutReport(acc, i) ==
    LET ans == loader[i] IN
    IF ans.module_id = NoModule \/ ans.circular
    THEN acc
    ELSE [acc EXCEPT !.normal =
            Append(@, [ctxt |-> edges[i].ctxt, dep_id |-> ans.module_id, import |-> i])]

\* One iteration of the resolver loop, for edge i, on acc = [diags, normal].
ResolveOne(acc, i) ==
    LET ans == loader[i] IN
    IF ans.module_id = NoModule
    THEN [acc EXCEPT !.diags = Append(@, ModuleNotFound(DeclSpan(i)))]
    ELSE IF ans.circular
    THEN acc
    ELSE [acc EXCEPT !.normal =
            Append(@, [ctxt |-> edges[i].ctxt, dep_id |-> ans.module_id, import |-> i])]

\* The closure coalescing the edges of one (consumer, dependency) pair: every
\* edge of the pair gets the result of the load of the pair's first edge.
LoadOneCoalesced(n) ==
    LET same == {i \in DOMAIN edges : /\ edges[i].ctxt = n.ctxt
                                      /\ loader[i].module_id = n.dep_id
                                      /\ ~loader[i].circular}
        first == CHOOSE i \in same : \A i2 \in same : i <= i2
    IN  [ctxt |-> n.ctxt, dep_id |-> n.dep_id, import |-> n.import,
         res |-> loader[first].load]

\* The closure mapped over the normal imports: (ctxt, dep_id, import, res).
LoadOne(n) ==
    [ctxt |-> n.ctxt, dep_id |-> n.dep_id, import |-> n.import,
     res |-> loader[n.import].load]

Pending == [ctxt |-> "", dep_id |-> "", import |-> 0, res |-> Err("pending")]

\* collect::<Vec<_>>() of an indexed parallel iterator: the k-th item's result is
\* the k-th element, whenever it was produced.
CollectInCompletionOrder(results, k, r) ==
    LET free == {j \in DOMAIN results : results[j] = Pending}
        first == CHOOSE j \in free : \A j2 \in free : j <= j2
    IN  [results EXCEPT ![first] = r]

Collect(results, k, r) ==
    [results EXCEPT ![k] = r]

\* An iteration of the merge loop that drops a failed load.
MergeOneDroppingErrors(acc, r) ==
    IF r.res.ok
    THEN [acc EXCEPT !.imports = insert_import_info(@, r.ctxt, r.dep_id, r.res.val),
                     !.calls = Append(@, [ctxt |-> r.ctxt, dep_id |-> r.dep_id,
                                          ty |-> r.res.val])]
    ELSE acc

\* One iteration of the merge loop on acc = [imports, diags, calls].
MergeOne(acc, r) ==
    IF r.res.ok
    THEN [acc EXCEPT !.imports = insert_import_info(@, r.ctxt, r.dep_id, r.res.val),
                     !.calls = Append(@, [ctxt |-> r.ctxt, dep_id |-> r.dep_id,
                                          ty |-> r.res.val])]
    ELSE [acc EXCEPT !.diags = Append(@, r.res.val)]

RECURSIVE ResolveFrom(_, _)
ResolveFrom(acc, i) ==
    IF i > Len(edges) THEN acc ELSE ResolveFrom(ResolveOne(acc, i), i + 1)

RECURSIVE MergeFrom(_, _, _)
MergeFrom(acc, results, k) ==
    IF k > Len(results) THEN acc ELSE MergeFrom(MergeOne(acc, results[k]), results, k + 1)

\* load_normal_imports run by the sequential executor (feature "no-threading").
LoadNormalImportsSequential(imports0, diags0, calls0) ==
    IF is_builtin
    THEN [imports |-> imports0, diags |-> diags0, calls |-> calls0, normal |-> <<>>,
          results |-> <<>>]
    ELSE LET r == ResolveFrom([diags |-> diags0, normal |-> <<>>], 1)
             results == [k \in 1..Len(r.normal) |-> LoadOne(r.normal[k])]
             m == MergeFrom([imports |-> imports0, diags |-> r.diags, calls |-> calls0],
                            results, 1)
         IN  [imports |-> m.imports, diags |-> m.diags, calls |-> m.calls,
              normal |-> r.normal, results |-> results]

Enter ==
    /\ pc = "start"
    /\ pc' = IF is_builtin THEN "done" ELSE "resolve"
    /\ idx' = 1
    /\ UNCHANGED <<is_builtin, edges, loader, normal_imports, worker, import_results,
                   imports, insert_calls, finished_order, diags, binderVars, mappedVars, envVars, keyofVars>>

ResolveStep ==
    /\ pc = "resolve"
    /\ idx <= Len(edges)
    /\ LET r == ResolveOne([diags |-> diags, normal |-> normal_imports], idx) IN
         /\ diags' = r.diags
         /\ normal_imports' = r.normal
    /\ idx' = idx + 1
    /\ UNCHANGED <<is_builtin, edges, loader, pc, worker, import_results, imports,
                   insert_calls, finished_order, binderVars, mappedVars, envVars, keyofVars>>

\* into_par_iter().map(..): the loop is over, one task per normal import is
\* handed to the pool; a task is "running" until its closure has returned.
Fork ==
    /\ pc = "resolve"
    /\ idx > Len(edges)
    /\ pc' = "load"
    /\ worker' = [k \in 1..Len(normal_imports) |-> "running"]
    /\ import_results' = [k \in 1..Len(normal_imports) |-> Pending]
    /\ UNCHANGED <<is_builtin, edges, loader, idx, normal_imports, imports,
                   insert_calls, finished_order, diags, binderVars, mappedVars, envVars, keyofVars>>

WorkerFinishInsertsEagerly(k) ==
    /\ pc = "load"
    /\ worker[k] = "running"
    /\ worker' = [worker EXCEPT ![k] = "done"]
    /\ finished_order' = Append(finished_order, k)
    /\ import_results' = Collect(import_results, k, LoadOne(normal_imports[k]))
    /\ LET r == LoadOne(normal_imports[k]) IN
         imports' = IF r.res.ok
                    THEN insert_import_info(imports, r.ctxt, r.dep_id, r.res.val)
                    ELSE imports
    /\ UNCHANGED <<is_builtin, edges, loader, pc, idx, normal_imports,
                   insert_calls, diags, binderVars, mappedVars, envVars, keyofVars>>

WorkerFinish(k) ==
    /\ pc = "load"
    /\ worker[k] = "running"
    /\ worker' = [worker EXCEPT ![k] = "done"]
    /\ finished_order' = Append(finished_order, k)
    /\ import_results' = Collect(import_results, k, LoadOne(normal_imports[k]))
    /\ UNCHANGED <<is_builtin, edges, loader, pc, idx, normal_imports, imports,
                   insert_calls, diags, binderVars, mappedVars, envVars, keyofVars>>

\* collect() returns once every worker is done.
Join ==
    /\ pc = "load"
    /\ \A k \in DOMAIN worker : worker[k] = "done"
    /\ pc' = "merge"
    /\ idx' = 1
    /\ UNCHANGED <<is_builtin, edges, loader, normal_imports, worker, import_results,
                   imports, insert_calls, finished_order, diags, binderVars, mappedVars, envVars, keyofVars>>

MergeStep ==
    /\ pc = "merge"
    /\ idx <= Len(import_results)
    /\ LET m == MergeOne([imports |-> imports, diags |-> diags, calls |-> insert_calls],
                         import_results[idx]) IN
         /\ imports' = m.imports
         /\ diags' = m.diags
         /\ insert_calls' = m.calls
    /\ idx' = idx + 1
    /\ UNCHANGED <<is_builtin, edges, loader, pc, normal_imports, worker,
                   import_results, finished_order, binderVars, mappedVars, envVars, keyofVars>>

Return ==
    /\ pc = "merge"
    /\ idx > Len(import_results)
    /\ pc' = "done"
    /\ UNCHANGED <<is_builtin, edges, loader, idx, normal_imports, worker,
                   import_results, imports, insert_calls, finished_order, diags, binderVars, mappedVars, envVars, keyofVars>>

\* load_normal_imports as one handler: the build with feature "no-threading".
LoadNormalImports ==
    /\ pc = "start"
    /\ LET r == LoadNormalImportsSequential(imports, diags, insert_calls) IN
         /\ imports' = r.imports
         /\ diags' = r.diags
         /\ insert_calls' = r.calls
         /\ normal_imports' = r.normal
         /\ import_results' = r.results
    /\ pc' = "done"
    /\ UNCHANGED <<is_builtin, edges, loader, idx, worker, finished_order,
                   binderVars, mappedVars, envVars, keyofVars>>

-----------------------------------------------------------------------------
(* The binder: get_imported_items, handle_import, validate(RImportDecl) *)

\* The specifiers of an import declaration.  imported is <<>> for `{x}` and
\* <<"x">> for `{x as a}`.
NamedSpecifiers ==
    {[kind |-> "Named", imported |-> <<"x">>, local |-> "a"],
     [kind |-> "Named", imported |-> <<>>, local |-> "x"],
     [kind |-> "Named", imported |-> <<>>, local |-> "a"]}
DefaultSpecifiers == {[kind |-> "Default", imported |-> <<>>, local |-> "a"]}
NamespaceSpecifiers == {[kind |-> "Namespace", imported |-> <<>>, local |-> "a"]}

\* ImportClause of the grammar: an optional default binding, then nothing, one
\* namespace import, or named imports.
SpecifierLists ==
    LET heads == {<<>>} \cup {<<d>> : d \in DefaultSpecifiers}
        tails == {<<n>> : n \in NamespaceSpecifiers} \cup SeqsUpTo(NamedSpecifiers, MaxSpecifiers)
    IN  {l \in {h \o t : h \in heads, t \in tails} : Len(l) <= MaxSpecifiers}

\* The binder's view of the analyzer and its Storage.
BinderState ==
    [diags |-> diags, scope_vars |-> scope_vars, declare_calls |-> declare_calls,
     type_regs |-> type_regs, private_vars |-> private_vars,
     private_types |-> private_types, unresolved_imports |-> unresolved_imports]

\* Analyzer::declare_var(span, VarKind::Import, name, Some(ty), None, true, false,
\* false): binds a name that is not bound yet, and fails on one that is.
declare_var(b, span, name, ty) ==
    LET ok == name \notin DOMAIN b.scope_vars IN
    [b |-> [b EXCEPT !.declare_calls =
                        Append(@, [span |-> span, name |-> name, ty |-> ty, ok |-> ok]),
                     !.scope_vars = IF ok THEN (name :> ty) @@ @ ELSE @],
     ok |-> ok]

\* storage.report(err)
report(b, err) == [b EXCEPT !.diags = Append(@, err)]

\* get_imported_items handing back the resolved ModuleId when the cache has no
\* entry for the pair.
get_imported_items_keeping_dep(b, i) ==
    LET ctxt == edges[i].ctxt
        dep_id == loader[i].module_id
    IN  IF dep_id = NoModule
        THEN [b |-> report(b, ModuleNotFound(DeclSpan(i))), dep |-> ctxt, data |-> AnyType]
        ELSE IF <<ctxt, dep_id>> \notin DOMAIN imports
        THEN [b |-> report(b, ModuleNotFound(DeclSpan(i))), dep |-> dep_id, data |-> AnyType]
        ELSE [b |-> b, dep |-> dep_id, data |-> imports[<<ctxt, dep_id>>]]

\* get_imported_items(span, dst) for declaration i: (b, dep, data).
get_imported_items(b, i) ==
    LET ctxt == edges[i].ctxt
        dep_id == loader[i].module_id
    IN  IF dep_id = NoModule
        THEN [b |-> report(b, ModuleNotFound(DeclSpan(i))), dep |-> ctxt, data |-> AnyType]
        ELSE IF <<ctxt, dep_id>> \notin DOMAIN imports
        THEN [b |-> report(b, ModuleNotFound(DeclSpan(i))), dep |-> ctxt, data |-> AnyType]
        ELSE [b |-> b, dep |-> dep_id, data |-> imports[<<ctxt, dep_id>>]]

\* handle_import: the ImportFailed of a specifier that found no entry is reported
\* only if the import itself was successful.
reports_import_failed_always(ctxt, target) == TRUE

reports_import_failed(ctxt, target) == ctxt # target
\* handle_import binding only the first of the types registered under the name.
handle_import_first_type_only(b, span, ctxt, target, orig, id) ==
    LET has_data == ctxt # target /\ <<ctxt, target>> \in DOMAIN imports
        data == imports[<<ctxt, target>>]
        var_hit == has_data /\ orig \in DOMAIN data.vars
        type_hits == IF has_data /\ orig \in DOMAIN data.types THEN data.types[orig] ELSE <<>>
        found_entry == var_hit \/ Len(type_hits) > 0
        b1 == IF var_hit
              THEN [b EXCEPT !.private_vars =
                        Append(@, [ctxt |-> ctxt, id |-> id, ty |-> data.vars[orig]])]
              ELSE b
        b2 == [b1 EXCEPT !.private_types =
                    @ \o [t \in 1..(IF Len(type_hits) > 0 THEN 1 ELSE 0) |->
                            [ctxt |-> ctxt, id |-> id, ty |-> type_hits[t]]]]
    IN  IF found_entry
        THEN b2
        ELSE LET b3 == [b2 EXCEPT !.unresolved_imports = @ \cup {id},
                                  !.type_regs = Append(@, [name |-> id, ty |-> AnyType])]
                 d == declare_var(b3, span, id, AnyType)
                 b4 == IF d.ok THEN d.b ELSE report(d.b, DeclarationError(span, id))
             IN  IF reports_import_failed(ctxt, target)
                 THEN report(b4, ImportFailed(span, orig, id))
                 ELSE b4


handle_import(b, span, ctxt, target, orig, id) ==
    LET has_data == ctxt # target /\ <<ctxt, target>> \in DOMAIN imports
        data == imports[<<ctxt, target>>]
        var_hit == has_data /\ orig \in DOMAIN data.vars
        type_hits == IF has_data /\ orig \in DOMAIN data.types THEN data.types[orig] ELSE <<>>
        found_entry == var_hit \/ Len(type_hits) > 0
        b1 == IF var_hit
              THEN [b EXCEPT !.private_vars =
                        Append(@, [ctxt |-> ctxt, id |-> id, ty |-> data.vars[orig]])]
              ELSE b
        b2 == [b1 EXCEPT !.private_types =
                    @ \o [t \in 1..Len(type_hits) |->
                            [ctxt |-> ctxt, id |-> id, ty |-> type_hits[t]]]]
    IN  IF found_entry
        THEN b2
        ELSE LET b3 == [b2 EXCEPT !.unresolved_imports = @ \cup {id},
                                  !.type_regs = Append(@, [name |-> id, ty |-> AnyType])]
                 d == declare_var(b3, span, id, AnyType)
                 b4 == IF d.ok THEN d.b ELSE report(d.b, DeclarationError(span, id))
             IN  IF reports_import_failed(ctxt, target)
                 THEN report(b4, ImportFailed(span, orig, id))
                 ELSE b4

\* The type a namespace specifier is bound to.
namespace_type_unchecked(base, dep, data) == data

namespace_type(base, dep, data) ==
    IF base = dep THEN AnyType ELSE data

\* The loop of validate(RImportDecl) from specifier j on: [b, ok].  A declare_var
\* that fails for a namespace specifier ends validate with that error.
RECURSIVE BindFrom(_, _, _, _, _, _)
BindFrom(b, i, specifiers, j, dep, data) ==
    IF j > Len(specifiers)
    THEN [b |-> b, ok |-> TRUE]
    ELSE LET sp == specifiers[j]
             base == edges[i].ctxt
             span == SpecifierSpan(i, j)
         IN  IF sp.kind = "Named"
             THEN BindFrom(handle_import(b, span, base, dep,
                                         IF sp.imported = <<>> THEN sp.local ELSE sp.imported[1],
                                         sp.local),
                           i, specifiers, j + 1, dep, data)
             ELSE IF sp.kind = "Default"
             THEN BindFrom(handle_import(b, span, base, dep, "default", sp.local),
                           i, specifiers, j + 1, dep, data)
             ELSE LET d == declare_var(b, span, sp.local, namespace_type(base, dep, data))
                  IN  IF d.ok
                      THEN BindFrom(d.b, i, specifiers, j + 1, dep, data)
                      ELSE [b |-> d.b, ok |-> FALSE]

\* validate(RImportDecl) for declaration i.
validate(b, i, specifiers) ==
    LET g == get_imported_items(b, i) IN
    BindFrom(g.b, i, specifiers, 1, g.dep, g.data)

\* The validator visits the import declarations in order, each once.
Validate ==
    /\ pc = "done"
    /\ Len(decls) < Len(edges)
    /\ \E specifiers \in SpecifierLists :
         LET r == validate(BinderState, Len(decls) + 1, specifiers) IN
           /\ decls' = Append(decls, specifiers)
           /\ validate_results' = Append(validate_results, r.ok)
           /\ diags' = r.b.diags
           /\ scope_vars' = r.b.scope_vars
           /\ declare_calls' = r.b.declare_calls
           /\ type_regs' = r.b.type_regs
           /\ private_vars' = r.b.private_vars
           /\ private_types' = r.b.private_types
           /\ unresolved_imports' = r.b.unresolved_imports
    /\ UNCHANGED <<is_builtin, edges, loader, pc, idx, normal_imports, worker,
                   import_results, imports, insert_calls, finished_order, mappedVars, envVars, keyofVars>>

-----------------------------------------------------------------------------
(* Types (the variants of stc_ts_types::Type that mapped.rs matches on) *)

\* Option<T>
Some(v) == <<v>>
None == <<>>
IsSome(o) == o # <<>>

Keyword(kind) == [tag |-> "Keyword", kind |-> kind]
StrLit(span, value) == [tag |-> "Lit", lit |-> "Str", span |-> span, value |-> value]
NumLit(span, value) == [tag |-> "Lit", lit |-> "Num", span |-> span, value |-> value]
BigIntLit(span, value) == [tag |-> "Lit", lit |-> "BigInt", span |-> span, value |-> value]
BoolLit(span, value) == [tag |-> "Lit", lit |-> "Bool", span |-> span, value |-> value]
\* A template literal type: quasis is the list of the cooked texts, each an Option.
TplLit(span, quasis) == [tag |-> "Lit", lit |-> "Tpl", span |-> span, quasis |-> quasis]
Union(types) == [tag |-> "Union", types |-> types]
Intersection(types) == [tag |-> "Intersection", types |-> types]
TypeLit(members) == [tag |-> "TypeLit", members |-> members]
Interface(body, extends) == [tag |-> "Interface", body |-> body, extends |-> extends]
Enum(members) == [tag |-> "Enum", members |-> members]
EnumVariant(enum_name) == [tag |-> "EnumVariant", enum_name |-> enum_name]
Array(elem_type) == [tag |-> "Array", elem_type |-> elem_type]
Tuple(types) == [tag |-> "Tuple", types |-> types]
Param(name, constraint) == [tag |-> "Param", name |-> name, constraint |-> constraint]
Operator(op, ty) == [tag |-> "Operator", op |-> op, ty |-> ty]
IndexedAccessType(obj_type, index_type) ==
    [tag |-> "IndexedAccessType", obj_type |-> obj_type, index_type |-> index_type]
Conditional(check_type, extends_type, true_type, false_type) ==
    [tag |-> "Conditional", check_type |-> check_type, extends_type |-> extends_type,
     true_type |-> true_type, false_type |-> false_type]
Ref(name) == [tag |-> "Ref", name |-> name]
\* optional and readonly are Option<TruePlusMinus>: <<>>, <<"True">>, <<"Plus">>, <<"Minus">>
Mapped(name, constraint, ty, optional, readonly) ==
    [tag |-> "Mapped", type_param |-> [name |-> name, constraint |-> constraint],
     ty |-> ty, optional |-> optional, readonly |-> readonly]

\* Key
NormalKey(span, sym) == [k |-> "Normal", span |-> span, sym |-> sym]
NumKey(span, value) == [k |-> "Num", span |-> span, value |-> value]
BigIntKey(span, value) == [k |-> "BigInt", span |-> span, value |-> value]

\* TypeElement
PropertySignature(key, readonly, optional, type_ann) ==
    [el |-> "Property", key |-> key, readonly |-> readonly, optional |-> optional,
     type_ann |-> type_ann]
MethodSignature(key, readonly, optional) ==
    [el |-> "Method", key |-> key, readonly |-> readonly, optional |-> optional]
CallSignature == [el |-> "Call"]
ConstructorSignature == [el |-> "Constructor"]
\* params is the list of the parameters' types
IndexSignature(span, params, readonly, type_ann) ==
    [el |-> "Index", span |-> span, params |-> params, readonly |-> readonly,
     type_ann |-> type_ann]

\* PropertyName (mapped.rs): Key(Key) or IndexSignature {span, params, readonly}
PropertyNameKey(key) == [pn |-> "Key", key |-> key]
PropertyNameIndex(span, params, readonly) ==
    [pn |-> "IndexSignature", span |-> span, params |-> params, readonly |-> readonly]

\* The span of the mapped type and of the expansion request.
MappedSpan == 0

RECURSIVE Strip(_)
RECURSIVE StripElement(_)
\* A type with every source position erased.
Strip(t) ==
    CASE t.tag = "Lit" -> [t EXCEPT !.span = MappedSpan]
      [] t.tag \in {"Union", "Intersection", "Tuple"} ->
            [t EXCEPT !.types = [i \in DOMAIN t.types |-> Strip(t.types[i])]]
      [] t.tag = "TypeLit" ->
            [t EXCEPT !.members = [i \in DOMAIN t.members |-> StripElement(t.members[i])]]
      [] t.tag = "Interface" ->
            [t EXCEPT !.body = [i \in DOMAIN t.body |-> StripElement(t.body[i])]]
      [] t.tag = "Enum" ->
            [t EXCEPT !.members = [i \in DOMAIN t.members |->
                                      [t.members[i] EXCEPT !.span = MappedSpan]]]
      [] t.tag = "Array" -> [t EXCEPT !.elem_type = Strip(t.elem_type)]
      [] t.tag = "Param" ->
            [t EXCEPT !.constraint = [i \in DOMAIN t.constraint |-> Strip(t.constraint[i])]]
      [] t.tag = "Operator" -> [t EXCEPT !.ty = Strip(t.ty)]
      [] t.tag = "IndexedAccessType" ->
            [t EXCEPT !.obj_type = Strip(t.obj_type), !.index_type = Strip(t.index_type)]
      [] t.tag = "Conditional" ->
            [t EXCEPT !.check_type = Strip(t.check_type), !.extends_type = Strip(t.extends_type),
                      !.true_type = Strip(t.true_type), !.false_type = Strip(t.false_type)]
      [] t.tag = "Mapped" ->
            [t EXCEPT !.type_param.constraint =
                          [i \in DOMAIN t.type_param.constraint |-> Strip(t.type_param.constraint[i])],
                      !.ty = [i \in DOMAIN t.ty |-> Strip(t.ty[i])]]
      [] OTHER -> t

StripElement(e) ==
    CASE e.el = "Property" ->
            [e EXCEPT !.key.span = MappedSpan,
                      !.type_ann = [i \in DOMAIN e.type_ann |-> Strip(e.type_ann[i])]]
      [] e.el = "Method" -> [e EXCEPT !.key.span = MappedSpan]
      [] e.el = "Index" ->
            [e EXCEPT !.span = MappedSpan,
                      !.params = [i \in DOMAIN e.params |-> Strip(e.params[i])],
                      !.type_ann = [i \in DOMAIN e.type_ann |-> Strip(e.type_ann[i])]]
      [] OTHER -> e

\* TypeEq: structural equality that ignores source positions.
type_eq(a, b) == Strip(a) = Strip(b)

\* TypeEq of two PropertyNames.
property_name_type_eq(a, b) ==
    IF a.pn # b.pn THEN FALSE
    ELSE IF a.pn = "Key" THEN [a.key EXCEPT !.span = MappedSpan] = [b.key EXCEPT !.span = MappedSpan]
    ELSE /\ a.readonly = b.readonly
         /\ Len(a.params) = Len(b.params)
         /\ \A i \in DOMAIN a.params : type_eq(a.params[i], b.params[i])

\* The derived PartialEq of PropertyName, used by Vec::contains: every field is
\* compared, the span too.
property_name_eq(a, b) == a = b

\* The types the analyzer's scope resolves a name to.
SymbolTable ==
    [Keys |-> Union(<<StrLit(11, "a"), StrLit(12, "b")>>),
     Obj |-> TypeLit(<<PropertySignature(NormalKey(13, "a"), FALSE, FALSE, Some(Keyword("number")))>>),
     Base |-> Interface(<<PropertySignature(NormalKey(14, "b"), TRUE, FALSE, Some(Keyword("string")))>>, <<>>),
     List |-> Array(Keyword("string")),
     Color |-> Enum(<<[span |-> 15, id |-> "Red", val |-> Some(NumLit(15, "0"))],
                      [span |-> 16, id |-> "Green", val |-> Some(StrLit(16, "g"))],
                      [span |-> 17, id |-> "Blue", val |-> None]>>)]

\* The scope of `function f<P extends Q, Q extends P, S extends S>()`, in
\* addition: a constraint is a reference to a type parameter, resolved through
\* the scope.
CircularSymbolTable ==
    [n \in DOMAIN SymbolTable \cup {"P", "Q", "S"} |->
        CASE n = "P" -> Param("P", Some(Ref("Q")))
          [] n = "Q" -> Param("Q", Some(Ref("P")))
          [] n = "S" -> Param("S", Some(Ref("S")))
          [] OTHER -> SymbolTable[n]]

\* Analyzer::normalize: a reference is replaced by the type it names.
normalize(ty) ==
    IF ty.tag = "Ref" THEN symbols[ty.name] ELSE ty

\* Key::ty(): the literal type of a key.
key_ty(key) ==
    CASE key.k = "Normal" -> StrLit(key.span, key.sym)
      [] key.k = "Num" -> NumLit(key.span, key.value)
      [] key.k = "BigInt" -> BigIntLit(key.span, key.value)

RECURSIVE expand_type_params(_, _, _)
\* Analyzer::expand_type_params with the map {name -> arg}: every use of the type
\* parameter `name` in ty is replaced by arg.
expand_type_params(name, arg, ty) ==
    LET sub(t) == expand_type_params(name, arg, t)
        subel(e) ==
            IF e.el \in {"Property", "Index"}
            THEN [e EXCEPT !.type_ann = [i \in DOMAIN e.type_ann |-> sub(e.type_ann[i])]]
            ELSE e
    IN  CASE ty.tag = "Param" -> IF ty.name = name THEN arg ELSE ty
          [] ty.tag \in {"Union", "Intersection", "Tuple"} ->
                [ty EXCEPT !.types = [i \in DOMAIN ty.types |-> sub(ty.types[i])]]
          [] ty.tag = "TypeLit" ->
                [ty EXCEPT !.members = [i \in DOMAIN ty.members |-> subel(ty.members[i])]]
          [] ty.tag = "Array" -> [ty EXCEPT !.elem_type = sub(ty.elem_type)]
          [] ty.tag = "Operator" -> [ty EXCEPT !.ty = sub(ty.ty)]
          [] ty.tag = "IndexedAccessType" ->
                [ty EXCEPT !.obj_type = sub(ty.obj_type), !.index_type = sub(ty.index_type)]
          [] ty.tag = "Conditional" ->
                [ty EXCEPT !.check_type = sub(ty.check_type), !.extends_type = sub(ty.extends_type),
                           !.true_type = sub(ty.true_type), !.false_type = sub(ty.false_type)]
          [] OTHER -> ty

\* stc_ts_base_type_ops::apply_mapped_flags: an absent modifier leaves the member's
\* flag, True and Plus set it, Minus clears it.
flag_after(modifier, own) ==
    IF modifier = None THEN own ELSE modifier[1] \in {"True", "Plus"}

apply_mapped_flags(el, optional, readonly) ==
    CASE el.el \in {"Property", "Method"} ->
            [el EXCEPT !.optional = flag_after(optional, el.optional),
                       !.readonly = flag_after(readonly, el.readonly)]
      [] el.el = "Index" -> [el EXCEPT !.readonly = flag_after(readonly, el.readonly)]
      [] OTHER -> el

\* Analyzer::validate_key on the initializer of an enum member.
validate_key(val) ==
    IF val = None THEN None
    ELSE IF val[1].lit = "Str" THEN Some(NormalKey(val[1].span, val[1].value))
    ELSE IF val[1].lit = "Num" THEN Some(NumKey(val[1].span, val[1].value))
    ELSE None

-----------------------------------------------------------------------------
(* mapped.rs *)

RECURSIVE Concat(_)
Concat(seqs) == IF seqs = <<>> THEN <<>> ELSE Head(seqs) \o Concat(Tail(seqs))

RECURSIVE convert_type_to_keys(_)
\* Evaluate a type and convert it to keys: Option<Vec<Key>>.
convert_type_to_keys(t) ==
    CASE t.tag = "Ref" -> convert_type_to_keys(normalize(t))
      [] t.tag = "Lit" ->
            CASE t.lit = "BigInt" -> Some(<<BigIntKey(t.span, t.value)>>)
              [] t.lit = "Num" -> Some(<<NumKey(t.span, t.value)>>)
              [] t.lit = "Str" -> Some(<<NormalKey(t.span, t.value)>>)
              [] t.lit = "Tpl" /\ Len(t.quasis) = 1 ->
                    IF IsSome(t.quasis[1])
                    THEN Some(<<NormalKey(t.span, t.quasis[1][1])>>)
                    ELSE None
              [] OTHER -> None
      [] t.tag = "Union" ->
            LET parts == [i \in DOMAIN t.types |-> convert_type_to_keys(t.types[i])] IN
            IF \E i \in DOMAIN parts : parts[i] = None
            THEN None
            ELSE Some(Concat([i \in DOMAIN parts |-> parts[i][1]]))
      [] t.tag = "Enum" ->
            Some(Concat([i \in DOMAIN t.members |-> validate_key(t.members[i].val)]))
      [] t.tag = "EnumVariant" ->
            LET ty == symbols[t.enum_name]
                items == IF ty.tag = "Enum" THEN convert_type_to_keys(ty) ELSE None
            IN  Some(Concat(items))
      [] t.tag \in {"TypeLit", "Interface", "Class", "ClassDef"} -> None
      [] OTHER -> None

\* expand_key_in_mapped: the template with the mapped type's parameter replaced by
\* the literal type of the key.
expand_key_in_mapped(mapped_type_param, mapped_ty, key) ==
    expand_type_params(mapped_type_param, key_ty(key), mapped_ty)

\* The Property member built for a key (in both expansions).
key_member_without_template(m, key) ==
    apply_mapped_flags(PropertySignature(key, FALSE, FALSE, None), m.optional, m.readonly)

key_member(m, key) ==
    LET ty == IF IsSome(m.ty)
              THEN Some(expand_key_in_mapped(m.type_param.name, m.ty[1], key))
              ELSE None
    IN  apply_mapped_flags(PropertySignature(key, FALSE, FALSE, ty), m.optional, m.readonly)

\* readonly of an index signature: m.readonly.map_or(false, ..)
readonly_or_false(readonly) ==
    IF readonly = None THEN FALSE ELSE readonly[1] \in {"True", "Plus"}

\* Type::as_array_without_readonly
as_array_without_readonly(t) ==
    IF t.tag = "Array" THEN Some(t)
    ELSE IF t.tag = "Operator" /\ t.op = "ReadOnly" /\ t.ty.tag = "Array" THEN Some(t.ty)
    ELSE None

\* Type::is_any
is_any(t) == t.tag = "Keyword" /\ t.kind = "any"

\* Type::is_kwd
is_kwd(t, kind) == t.tag = "Keyword" /\ t.kind = kind

\* The types directly below a type element and below a type.
ElementChildren(e) ==
    CASE e.el = "Property" -> e.type_ann
      [] e.el = "Index" -> e.params \o e.type_ann
      [] OTHER -> <<>>

Children(t) ==
    CASE t.tag \in {"Union", "Intersection", "Tuple"} -> t.types
      [] t.tag = "TypeLit" -> Concat([i \in DOMAIN t.members |-> ElementChildren(t.members[i])])
      [] t.tag = "Interface" -> Concat([i \in DOMAIN t.body |-> ElementChildren(t.body[i])])
      [] t.tag = "Array" -> <<t.elem_type>>
      [] t.tag = "Param" -> t.constraint
      [] t.tag = "Operator" -> <<t.ty>>
      [] t.tag = "IndexedAccessType" -> <<t.obj_type, t.index_type>>
      [] t.tag = "Conditional" -> <<t.check_type, t.extends_type, t.true_type, t.false_type>>
      [] t.tag = "Mapped" -> t.type_param.constraint \o t.ty
      [] OTHER -> <<>>

RECURSIVE TypeParamNameUsageFinder(_)
\* TypeParamNameUsageFinder: does the type mention a type parameter?
TypeParamNameUsageFinder(t) ==
    \/ t.tag = "Param"
    \/ \E i \in DOMAIN Children(t) : TypeParamNameUsageFinder(Children(t)[i])

\* Analyzer::convert_type_to_type_lit: Option<TypeLit>
convert_type_to_type_lit(t) ==
    LET ty == normalize(t) IN
    CASE ty.tag = "TypeLit" -> Some(ty)
      [] ty.tag = "Interface" ->
            Some(TypeLit(ty.body \o
                Concat([i \in DOMAIN ty.extends |-> symbols[ty.extends[i]].body])))
      [] OTHER -> None

\* The test shared by IndexedAccessTypeFinder and IndexedAccessTypeReplacer:
\* n is obj[key].
is_indexed_access_of(obj, key, n) ==
    /\ type_eq(n.obj_type, obj)
    /\ n.index_type.tag = "Param"
    /\ n.index_type.name = key

RECURSIVE IndexedAccessTypeFinder(_, _, _)
\* can_replace_indexed_type after visiting t.
IndexedAccessTypeFinder(obj, key, t) ==
    CASE t.tag = "IndexedAccessType" ->
            \/ is_indexed_access_of(obj, key, t)
            \/ IndexedAccessTypeFinder(obj, key, t.obj_type)
            \/ IndexedAccessTypeFinder(obj, key, t.index_type)
      [] t.tag = "Conditional" ->
            \/ IndexedAccessTypeFinder(obj, key, t.check_type)
            \/ IndexedAccessTypeFinder(obj, key, t.extends_type)
      [] OTHER ->
            \E i \in DOMAIN Children(t) : IndexedAccessTypeFinder(obj, key, Children(t)[i])

\* IndexedAccessTypeReplacer::visit_mut: the type after the visit.
IndexedAccessTypeReplacer(obj, key, ty) ==
    IF ~IndexedAccessTypeFinder(obj, key, ty) THEN ty
    ELSE IF ty.tag = "IndexedAccessType" /\ is_indexed_access_of(obj, key, ty) THEN obj
    ELSE ty

\* The keys of the members of a type literal or of an interface body.
member_keys_without_methods(members) ==
    Concat([i \in DOMAIN members |->
        CASE members[i].el = "Property" -> <<PropertyNameKey(members[i].key)>>
          [] members[i].el = "Index" ->
                <<PropertyNameIndex(members[i].span, members[i].params, members[i].readonly)>>
          [] OTHER -> <<>>])

member_keys(members) ==
    Concat([i \in DOMAIN members |->
        CASE members[i].el \in {"Call", "Constructor"} -> <<>>
          [] members[i].el \in {"Property", "Method"} -> <<PropertyNameKey(members[i].key)>>
          [] members[i].el = "Index" ->
                <<PropertyNameIndex(members[i].span, members[i].params, members[i].readonly)>>])

RECURSIVE push_unique(_, _)
\* result after pushing every key that no earlier key is type_eq to.
push_unique(result, keys) ==
    IF keys = <<>> THEN result
    ELSE push_unique(
            IF \E i \in DOMAIN result : property_name_type_eq(result[i], Head(keys))
            THEN result
            ELSE Append(result, Head(keys)),
            Tail(keys))

\* What an intersection's key extraction returns when nothing is retained.
empty_intersection_keys_as_success == Some(<<>>)

empty_intersection_keys == None

\* The Intersection arm, given every operand's extraction result.
intersection_keys(keys_types) ==
    IF keys_types = <<>> THEN None
    ELSE IF \A i \in DOMAIN keys_types : keys_types[i] = None THEN None
    ELSE LET first == Concat(keys_types[1])
             retained(item) ==
                \A i \in 2..Len(keys_types) :
                    \/ keys_types[i] = None
                    \/ \E j \in DOMAIN keys_types[i][1] :
                          property_name_eq(keys_types[i][1][j], item)
             result == push_unique(<<>>, SelectSeq(first, retained))
         IN  IF result = <<>> THEN empty_intersection_keys ELSE Some(result)

\* The Union arm failing as soon as one operand fails.
union_keys_failing_on_any_failure(keys_types) ==
    IF \E i \in DOMAIN keys_types : keys_types[i] = None THEN None
    ELSE Some(push_unique(<<>>, Concat([i \in DOMAIN keys_types |-> Concat(keys_types[i])])))

\* The Union arm.
union_keys(keys_types) ==
    IF \A i \in DOMAIN keys_types : keys_types[i] = None THEN None
    ELSE Some(push_unique(<<>>, Concat([i \in DOMAIN keys_types |-> Concat(keys_types[i])])))

RECURSIVE get_property_names_for_mapped_type(_)
\* Get keys of `ty` as a property name: Option<Vec<PropertyName>>.
get_property_names_for_mapped_type(t) ==
    LET ty == normalize(t)
        sub(s) == [i \in DOMAIN s |-> get_property_names_for_mapped_type(s[i])]
    IN  IF is_any(ty) THEN None
        ELSE CASE is_kwd(ty, "undefined") \/ is_kwd(ty, "null") -> Some(<<>>)
               [] ty.tag = "TypeLit" -> Some(member_keys(ty.members))
               [] ty.tag = "Interface" ->
                    Some(member_keys(ty.body) \o
                         Concat([i \in DOMAIN ty.extends |->
                            Concat(get_property_names_for_mapped_type(symbols[ty.extends[i]]))]))
               [] ty.tag = "Enum" ->
                    Some([i \in DOMAIN ty.members |->
                            PropertyNameKey(NormalKey(ty.members[i].span, ty.members[i].id))])
               [] ty.tag = "Param" -> None
               [] ty.tag = "Intersection" -> intersection_keys(sub(ty.types))
               [] ty.tag = "Union" -> union_keys(sub(ty.types))
               [] ty.tag \in {"Tuple", "Array"} -> None
               [] ty.tag = "Mapped" ->
                    LET c == ty.type_param.constraint IN
                    IF IsSome(c) /\ c[1].tag = "Operator" /\ c[1].op = "KeyOf"
                    THEN get_property_names_for_mapped_type(c[1].ty)
                    ELSE None
               [] OTHER -> None

\* apply_mapped_flags_to_type
apply_mapped_flags_to_type(ty, optional, readonly) ==
    LET type_lit == convert_type_to_type_lit(ty) IN
    IF IsSome(type_lit)
    THEN TypeLit([i \in DOMAIN type_lit[1].members |->
                    apply_mapped_flags(type_lit[1].members[i], optional, readonly)])
    ELSE ty

\* readonly of the Index member built for an index signature of the operand,
\* with the stored value of the signature ignored.
index_readonly_from_modifier_only(modifier, readonly) == readonly_or_false(modifier)

index_readonly(modifier, readonly) ==
    IF IsSome(modifier) THEN modifier[1] \in {"True", "Plus"} ELSE readonly

\* The member built for a PropertyName in expand_mapped_type_with_keyof.
property_name_member(m, key) ==
    IF key.pn = "Key" THEN key_member(m, key.key)
    ELSE IndexSignature(
            key.span, key.params, index_readonly(m.readonly, key.readonly),
            IF IsSome(m.ty)
            THEN Some(expand_type_params(m.type_param.name, key.params[1], m.ty[1]))
            ELSE None)

\* The outcome of an expansion: the Option<Type> returned, and the return
\* statement that produced it.
Outcome(val, step) == [val |-> val, step |-> step]

\* An array of any, whatever the template is.
array_of_any(m) == Array(AnyType)

\* The array built when the operand of keyof is an array.
array_result(m) == Array(IF IsSome(m.ty) THEN m.ty[1] ELSE AnyType)

\* expand_mapped_type_with_keyof up to the test for a type parameter: the
\* identity shortcut and the array operand (mapped.rs 138-165).
keyof_before_constraint(keyof_operand, m) ==
    LET new_type == convert_type_to_type_lit(keyof_operand)
        shortcut == IsSome(m.ty) /\ type_eq(keyof_operand, m.ty[1]) /\ IsSome(new_type)
        array == as_array_without_readonly(keyof_operand)
    IN  IF shortcut
        THEN Outcome(Some(TypeLit([i \in DOMAIN new_type[1].members |->
                apply_mapped_flags(new_type[1].members[i], m.optional, m.readonly)])), "identity")
        ELSE IF IsSome(array)
        THEN Outcome(Some(array_result(m)), "array")
        ELSE Outcome(None, "none")

\* `if let Type::Param(TypeParam { constraint: Some(constraint), .. })`
has_constraint(keyof_operand) ==
    keyof_operand.tag = "Param" /\ IsSome(keyof_operand.constraint)

\* The rest of the function without the test for type parameters in the operand.
keyof_after_constraint_ignoring_params(keyof_operand, m) ==
    LET keys == get_property_names_for_mapped_type(keyof_operand)
        can_replace ==
            /\ IsSome(m.ty)
            /\ IndexedAccessTypeFinder(keyof_operand, m.type_param.name, m.ty[1])
    IN  IF IsSome(keys)
        THEN Outcome(Some(TypeLit([i \in DOMAIN keys[1] |-> property_name_member(m, keys[1][i])])),
                     "keys")
        ELSE IF can_replace
        THEN Outcome(Some(apply_mapped_flags_to_type(
                        IndexedAccessTypeReplacer(keyof_operand, m.type_param.name, m.ty[1]),
                        m.optional, m.readonly)), "rewrite")
        ELSE Outcome(None, "none")

\* expand_mapped_type_with_keyof after the recursion on the constraint gave
\* nothing: the extracted keys and the indexed-access rewrite (mapped.rs 180-290).
keyof_after_constraint(keyof_operand, m) ==
    LET keys == get_property_names_for_mapped_type(keyof_operand)
        can_replace ==
            /\ IsSome(m.ty)
            /\ ~TypeParamNameUsageFinder(keyof_operand)
            /\ IndexedAccessTypeFinder(keyof_operand, m.type_param.name, m.ty[1])
    IN  IF IsSome(keys)
        THEN Outcome(Some(TypeLit([i \in DOMAIN keys[1] |-> property_name_member(m, keys[1][i])])),
                     "keys")
        ELSE IF can_replace
        THEN Outcome(Some(apply_mapped_flags_to_type(
                        IndexedAccessTypeReplacer(keyof_operand, m.type_param.name, m.ty[1]),
                        m.optional, m.readonly)), "rewrite")
        ELSE Outcome(None, "none")

RECURSIVE expand_mapped_type_with_keyof(_, _)
expand_mapped_type_with_keyof(operand, m) ==
    LET keyof_operand == normalize(operand)
        before == keyof_before_constraint(keyof_operand, m)
        by_constraint ==
            IF has_constraint(keyof_operand)
            THEN expand_mapped_type_with_keyof(keyof_operand.constraint[1], m)
            ELSE Outcome(None, "none")
    IN  IF IsSome(before.val)
        THEN before
        ELSE IF IsSome(by_constraint.val)
        THEN by_constraint
        ELSE keyof_after_constraint(keyof_operand, m)

expand_mapped_inner(m) ==
    LET c == m.type_param.constraint IN
    IF IsSome(c) /\ c[1].tag = "Operator" /\ c[1].op = "KeyOf"
    THEN expand_mapped_type_with_keyof(c[1].ty, m)
    ELSE IF IsSome(c)
    THEN IF is_kwd(c[1], "string") \/ is_kwd(c[1], "number")
         THEN Outcome(Some(TypeLit(<<IndexSignature(MappedSpan, <<c[1]>>,
                                        readonly_or_false(m.readonly), m.ty)>>)), "index")
         ELSE LET keys == convert_type_to_keys(c[1]) IN
              IF IsSome(keys)
              THEN Outcome(Some(TypeLit([i \in DOMAIN keys[1] |-> key_member(m, keys[1][i])])),
                           "literal_keys")
              ELSE Outcome(None, "none")
    ELSE Outcome(None, "none")

expand_mapped(m) == expand_mapped_inner(m)

-----------------------------------------------------------------------------
(* Initial states *)

BinderIdle ==
    /\ decls = <<>>
    /\ scope_vars = <<>>
    /\ declare_calls = <<>>
    /\ type_regs = <<>>
    /\ private_vars = <<>>
    /\ private_types = <<>>
    /\ unresolved_imports = {}
    /\ validate_results = <<>>

MappedIdle ==
    /\ mapped_in = AnyType
    /\ mapped_out = Outcome(None, "none")
    /\ mapped_pc = "idle"
    /\ mapped_again = Outcome(None, "none")
    /\ symbols = SymbolTable

KeyofIdle ==
    /\ call_stack = <<>>
    /\ keyof_ret = [val |-> <<>>, step |-> "none"]
    /\ keyof_pc = "idle"

EnvIdle ==
    /\ env_libs = <<>>
    /\ env_pc = <<>>
    /\ env_key = <<>>
    /\ env_builtin = <<>>
    /\ env_panic = <<>>
    /\ CACHE = <<>>
    /\ cache_files = {}
    /\ runs = <<>>

ImportIdle ==
    /\ is_builtin = TRUE
    /\ edges = <<>>
    /\ loader = <<>>
    /\ pc = "done"
    /\ idx = 1
    /\ normal_imports = <<>>
    /\ worker = <<>>
    /\ import_results = <<>>
    /\ imports = <<>>
    /\ insert_calls = <<>>
    /\ finished_order = <<>>
    /\ diags = <<>>

ImportInit(maxEdges, consumers) ==
    /\ is_builtin \in BOOLEAN
    /\ edges \in SeqsUpTo([ctxt : consumers], maxEdges)
    /\ loader \in {l \in SeqsUpTo(UNION {LoaderAnswers(i) : i \in 1..maxEdges}, maxEdges) :
                     /\ Len(l) = Len(edges)
                     /\ \A i \in 1..Len(l) : l[i] \in LoaderAnswers(i)}
    /\ pc = "start"
    /\ idx = 1
    /\ normal_imports = <<>>
    /\ worker = <<>>
    /\ import_results = <<>>
    /\ imports = <<>>
    /\ insert_calls = <<>>
    /\ finished_order = <<>>
    /\ diags = <<>>

Init ==
    /\ ImportInit(MaxEdges, Consumers)
    /\ BinderIdle
    /\ MappedIdle
    /\ EnvIdle
    /\ KeyofIdle

Next ==
    \/ Enter
    \/ ResolveStep
    \/ Fork
    \/ \E k \in DOMAIN worker : WorkerFinish(k)
    \/ Join
    \/ MergeStep
    \/ Return

Spec == Init /\ [][Next]_vars

\* A whole run on the module "main": every edge is an import declaration of it.
InitBind ==
    /\ ImportInit(MaxDecls, {"main"})
    /\ BinderIdle
    /\ MappedIdle
    /\ EnvIdle
    /\ KeyofIdle

NextBind ==
    \/ LoadNormalImports
    \/ Validate

SpecBind == InitBind /\ [][NextBind]_vars

-----------------------------------------------------------------------------
(* env.rs: BuiltInGen::from_ts_libs and EnvFactory::simple *)

\* The order of Lib (derive Ord).
LibOrder == <<"dom", "es5">>

Libs == {LibOrder[i] : i \in DOMAIN LibOrder}

LibRank(l) == CHOOSE i \in DOMAIN LibOrder : LibOrder[i] = l

RECURSIVE insert_sorted(_, _)
insert_sorted(sorted, l) ==
    IF sorted = <<>> THEN <<l>>
    ELSE IF LibRank(l) < LibRank(Head(sorted)) THEN <<l>> \o sorted
    ELSE <<Head(sorted)>> \o insert_sorted(Tail(sorted), l)

RECURSIVE sort(_)
\* libs.sort()
sort(libs) == IF libs = <<>> THEN <<>> ELSE insert_sorted(sort(Tail(libs)), Head(libs))

RECURSIVE dedup(_)
\* libs.dedup(): consecutive repeated elements are removed.
dedup(libs) ==
    IF Len(libs) < 2 THEN libs
    ELSE IF libs[1] = libs[2] THEN dedup(Tail(libs))
    ELSE <<Head(libs)>> \o dedup(Tail(libs))

\* The key of CACHE for a libs argument.
cache_key(libs) == dedup(sort(libs))

\* What reading and decoding an existing cache file gives.
ReadOutcomes == {"ok", "read_error", "decode_error"}

\* from_ts_libs(libs) in a file system where the cache file of libs exists or
\* not (is_file), reading it gives `read`, and rmp_serde encoding,
\* create_dir_all and write succeed or not. Returns the panic message (or
\* "none"), where the builtin came from, and whether the cache file exists
\* afterwards.
from_ts_libs(is_file, read, encode_ok, mkdir_ok, write_ok) ==
    IF is_file /\ read = "ok"
    THEN [panic |-> "none", from |-> "cache", is_file |-> TRUE]
    ELSE IF ~encode_ok
    THEN [panic |-> "failed to serialize builtin cache", from |-> "none", is_file |-> is_file]
    ELSE IF ~mkdir_ok
    THEN [panic |-> "failed to create directory for builtin cache", from |-> "none",
          is_file |-> is_file]
    ELSE IF ~write_ok
    THEN [panic |-> "failed to write builtin cache", from |-> "none", is_file |-> is_file]
    ELSE [panic |-> "none", from |-> "computed", is_file |-> TRUE]

Threads == 1..MaxThreads

EmptyCell == [state |-> "empty", value |-> None]

\* libs.sort(); libs.dedup(); CACHE.entry(libs.clone()).or_default().clone()
Entry(t) ==
    /\ env_pc[t] = "start"
    /\ LET key == cache_key(env_libs[t]) IN
       /\ env_key' = [env_key EXCEPT ![t] = key]
       /\ CACHE' = IF key \in DOMAIN CACHE THEN CACHE
                   ELSE [k \in DOMAIN CACHE \cup {key} |->
                            IF k = key THEN EmptyCell ELSE CACHE[k]]
    /\ env_pc' = [env_pc EXCEPT ![t] = "cell"]
    /\ UNCHANGED <<env_libs, env_builtin, env_panic, cache_files, runs,
                   importVars, binderVars, mappedVars, keyofVars>>

\* cell.get_or_init(..) finds the cell initialized.
GetOrInitHit(t) ==
    /\ env_pc[t] = "cell"
    /\ CACHE[env_key[t]].state = "full"
    /\ env_builtin' = [env_builtin EXCEPT ![t] = CACHE[env_key[t]].value]
    /\ env_pc' = [env_pc EXCEPT ![t] = "done"]
    /\ UNCHANGED <<env_libs, env_key, env_panic, CACHE, cache_files, runs,
                   importVars, binderVars, mappedVars, keyofVars>>

\* cell.get_or_init(..) finds the cell empty and nobody initializing it: this
\* caller runs the closure. (A caller that finds it being initialized waits.)
GetOrInitBegin(t) ==
    /\ env_pc[t] = "cell"
    /\ CACHE[env_key[t]].state = "empty"
    /\ CACHE' = [CACHE EXCEPT ![env_key[t]].state = "running"]
    /\ runs' = [runs EXCEPT ![env_key[t]] = @ + 1]
    /\ env_pc' = [env_pc EXCEPT ![t] = "init"]
    /\ UNCHANGED <<env_libs, env_key, env_builtin, env_panic, cache_files,
                   importVars, binderVars, mappedVars, keyofVars>>

\* The closure: BuiltIn::from_ts_libs(&STABLE_ENV, &libs), then the cell is set.
\* A panic unwinds out of get_or_init and leaves the cell uninitialized.
FromTsLibs(t) ==
    /\ env_pc[t] = "init"
    /\ \E read \in ReadOutcomes, encode_ok \in BOOLEAN, mkdir_ok \in BOOLEAN, write_ok \in BOOLEAN :
        LET key == env_key[t]
            r == from_ts_libs(key \in cache_files, read, encode_ok, mkdir_ok, write_ok)
            builtin == Some([libs |-> key, instance |-> runs[key]])
        IN  /\ cache_files' = IF r.is_file THEN cache_files \cup {key} ELSE cache_files
            /\ IF r.panic = "none"
               THEN /\ CACHE' = [CACHE EXCEPT ![key] = [state |-> "full", value |-> builtin]]
                    /\ env_builtin' = [env_builtin EXCEPT ![t] = builtin]
                    /\ env_pc' = [env_pc EXCEPT ![t] = "done"]
                    /\ UNCHANGED env_panic
               ELSE /\ CACHE' = [CACHE EXCEPT ![key] = EmptyCell]
                    /\ env_panic' = [env_panic EXCEPT ![t] = r.panic]
                    /\ env_pc' = [env_pc EXCEPT ![t] = "panicked"]
                    /\ UNCHANGED env_builtin
    /\ UNCHANGED <<env_libs, env_key, runs, importVars, binderVars, mappedVars, keyofVars>>

\* The libs arguments of the callers.
Requests ==
    {<<"es5">>, <<"dom">>, <<"es5", "dom">>, <<"dom", "es5">>, <<"es5", "es5">>,
     <<"es5", "dom", "es5">>}

Keys == {cache_key(libs) : libs \in Requests}

InitEnv ==
    /\ ImportIdle
    /\ BinderIdle
    /\ MappedIdle
    /\ KeyofIdle
    /\ env_libs \in [Threads -> Requests]
    /\ env_pc = [t \in Threads |-> "start"]
    /\ env_key = [t \in Threads |-> <<>>]
    /\ env_builtin = [t \in Threads |-> None]
    /\ env_panic = [t \in Threads |-> "none"]
    /\ CACHE = <<>>
    /\ cache_files \in SUBSET Keys
    /\ runs = [k \in Keys |-> 0]

NextEnv ==
    \E t \in Threads :
        \/ Entry(t)
        \/ GetOrInitHit(t)
        \/ GetOrInitBegin(t)
        \/ FromTsLibs(t)

SpecEnv == InitEnv /\ [][NextEnv]_vars

-----------------------------------------------------------------------------
(* expand_mapped and get_property_names_for_mapped_type as operations *)

\* An expand_mapped that resolves the references of the scope in place: every
\* name that resolves to a type literal or an interface is left as any.
ExpandMappedResolvingInPlace ==
    /\ mapped_pc = "expand"
    /\ mapped_out' = expand_mapped(mapped_in)
    /\ mapped_pc' = "expanded"
    /\ symbols' = [n \in DOMAIN symbols |->
                     IF symbols[n].tag \in {"TypeLit", "Interface"} THEN AnyType ELSE symbols[n]]
    /\ UNCHANGED <<mapped_in, mapped_again, importVars, binderVars, envVars, keyofVars>>

ExpandMapped ==
    /\ mapped_pc = "expand"
    /\ mapped_out' = expand_mapped(mapped_in)
    /\ mapped_pc' = "expanded"
    /\ UNCHANGED <<mapped_in, mapped_again, symbols, importVars, binderVars, envVars, keyofVars>>

\* The same mapped type is expanded a second time.
ExpandMappedAgain ==
    /\ mapped_pc = "expanded"
    /\ mapped_again' = expand_mapped(mapped_in)
    /\ mapped_pc' = "expanded_again"
    /\ UNCHANGED <<mapped_in, mapped_out, symbols, importVars, binderVars, envVars, keyofVars>>

GetPropertyNames ==
    /\ mapped_pc = "names"
    /\ mapped_out' = Outcome(get_property_names_for_mapped_type(mapped_in), "names")
    /\ mapped_pc' = "named"
    /\ UNCHANGED <<mapped_in, mapped_again, symbols, importVars, binderVars, envVars, keyofVars>>

\* The innermost call of expand_mapped_type_with_keyof runs up to its return
\* without calling itself: the shortcut or the array operand returns, or the
\* operand is no type parameter with a constraint and the rest of the function
\* gives the value.
KeyofCall ==
    /\ keyof_pc = "call"
    /\ LET keyof_operand == normalize(call_stack[Len(call_stack)])
           before == keyof_before_constraint(keyof_operand, mapped_in)
       IN  /\ IsSome(before.val) \/ ~has_constraint(keyof_operand)
           /\ keyof_ret' = IF IsSome(before.val) THEN before
                           ELSE keyof_after_constraint(keyof_operand, mapped_in)
    /\ keyof_pc' = "return"
    /\ UNCHANGED <<call_stack, mappedVars, importVars, binderVars, envVars>>

\* The innermost call reaches `self.expand_mapped_type_with_keyof(span,
\* constraint, m)` and calls itself with the constraint of its operand.
KeyofRecurse ==
    /\ keyof_pc = "call"
    /\ Len(call_stack) < MaxDepth
    /\ LET keyof_operand == normalize(call_stack[Len(call_stack)]) IN
           /\ ~IsSome(keyof_before_constraint(keyof_operand, mapped_in).val)
           /\ has_constraint(keyof_operand)
           /\ call_stack' = Append(call_stack, keyof_operand.constraint[1])
    /\ UNCHANGED <<keyof_ret, keyof_pc, mappedVars, importVars, binderVars, envVars>>

\* A nested call returns to its caller: Some(v) is returned as it is, and after
\* None the caller goes on with the rest of the function.
KeyofReturn ==
    /\ keyof_pc = "return"
    /\ Len(call_stack) > 1
    /\ call_stack' = SubSeq(call_stack, 1, Len(call_stack) - 1)
    /\ keyof_ret' = IF IsSome(keyof_ret.val) THEN keyof_ret
                    ELSE keyof_after_constraint(normalize(call_stack[Len(call_stack) - 1]),
                                                mapped_in)
    /\ UNCHANGED <<keyof_pc, mappedVars, importVars, binderVars, envVars>>

\* The outermost call returns to expand_mapped_inner.
KeyofDone ==
    /\ keyof_pc = "return"
    /\ Len(call_stack) = 1
    /\ call_stack' = <<>>
    /\ mapped_out' = keyof_ret
    /\ keyof_pc' = "done"
    /\ UNCHANGED <<keyof_ret, mapped_in, mapped_pc, mapped_again, symbols,
                   importVars, binderVars, envVars>>

-----------------------------------------------------------------------------
(* The types the mapped-type operations are applied to *)

NonEmptySeqsUpTo(S, n) == UNION {[1..k -> S] : k \in 1..n}

K == Param("K", None)

LiteralTypes ==
    {StrLit(1, "a"), StrLit(2, "b"), StrLit(3, "a"), NumLit(4, "1"), BigIntLit(5, "2"),
     BoolLit(6, "true"), TplLit(7, <<Some("t")>>), TplLit(8, <<None>>),
     TplLit(9, <<Some("p"), Some("q")>>)}

\* Constraints that are neither `keyof` nor a union of literals.
PlainConstraints ==
    LiteralTypes
    \cup {Union(<<Union(<<StrLit(1, "a"), NumLit(4, "1")>>), StrLit(2, "b")>>),
          Union(<<Ref("Keys"), StrLit(3, "a")>>), Union(<<>>),
          Ref("Keys"), Ref("Color"), Ref("Obj"), EnumVariant("Color"), EnumVariant("Obj"),
          Keyword("string"), Keyword("number"), Keyword("boolean"),
          Operator("ReadOnly", Array(Keyword("number")))}

PlainTemplates ==
    {None, Some(Keyword("number")), Some(K), Some(Array(K)), Some(Param("U", None)),
     Some(TypeLit(<<PropertySignature(NormalKey(31, "v"), FALSE, FALSE, Some(K))>>))}

Modifiers == {None, Some("True"), Some("Plus"), Some("Minus")}

FewModifiers ==
    {<<None, None>>, <<Some("True"), Some("True")>>, <<Some("Minus"), Some("Minus")>>,
     <<None, Some("Plus")>>, <<Some("Plus"), None>>}

Elements ==
    {PropertySignature(NormalKey(21, "a"), FALSE, FALSE, Some(Keyword("number"))),
     PropertySignature(NormalKey(22, "a"), TRUE, TRUE, Some(Keyword("string"))),
     PropertySignature(NumKey(23, "1"), FALSE, TRUE, None),
     MethodSignature(NormalKey(24, "m"), FALSE, FALSE),
     CallSignature,
     ConstructorSignature,
     IndexSignature(25, <<Keyword("string")>>, FALSE, Some(Keyword("number"))),
     IndexSignature(26, <<Keyword("number")>>, TRUE, None)}

A1 == PropertySignature(NormalKey(21, "a"), FALSE, FALSE, Some(Keyword("number")))
A2 == PropertySignature(NormalKey(22, "a"), TRUE, TRUE, Some(Keyword("string")))
B1 == PropertySignature(NormalKey(27, "b"), FALSE, FALSE, Some(Keyword("number")))

\* Operands of the unions and intersections.
Parts ==
    {TypeLit(<<>>), TypeLit(<<A1>>), TypeLit(<<A2>>), TypeLit(<<B1>>), TypeLit(<<A1, B1>>),
     TypeLit(<<B1, A2>>), TypeLit(<<A1, A1>>),
     TypeLit(<<IndexSignature(25, <<Keyword("string")>>, FALSE, Some(Keyword("number")))>>),
     TypeLit(<<IndexSignature(28, <<Keyword("string")>>, FALSE, Some(Keyword("number")))>>),
     Param("T", None), Keyword("undefined"), Array(Keyword("number")), Ref("Obj")}

\* A union or an intersection of the operands s.
Composite(kind, s) == IF kind = "Union" THEN Union(s) ELSE Intersection(s)

OtherOperands ==
    {Keyword("any"), Keyword("undefined"), Keyword("null"), Keyword("string"),
     Array(Keyword("number")), Operator("ReadOnly", Array(Keyword("string"))),
     Operator("ReadOnly", TypeLit(<<A1>>)),
     Tuple(<<Keyword("number")>>), StrLit(1, "a"),
     Param("T", None), Param("T", Some(TypeLit(<<A1, B1>>))),
     Param("T", Some(Array(Keyword("number")))),
     Param("T", Some(Param("U", None))), Param("T", Some(Param("U", Some(Ref("Obj"))))),
     Ref("Obj"), Ref("Base"), Ref("Color"), Ref("Keys"), Ref("List"),
     Interface(<<A1, CallSignature>>, <<"Base">>), Interface(<<>>, <<"Base", "Base">>),
     Intersection(<<>>), Intersection(<<TypeLit(<<A1>>)>>), Union(<<>>),
     Array(Param("T", None)), Union(<<Param("T", None), Array(Keyword("number"))>>),
     Mapped("P", Some(Operator("KeyOf", TypeLit(<<A1, B1>>))), Some(Keyword("number")), None, None),
     Mapped("P", Some(Union(<<StrLit(1, "a")>>)), None, None, None),
     Mapped("P", None, None, None, None)}

\* Templates of a mapped type over `keyof T`.
KeyofTemplates(T) ==
    {None, Some(Keyword("number")), Some(K), Some(IndexedAccessType(T, K)), Some(T),
     Some(TypeLit(<<PropertySignature(NormalKey(31, "v"), FALSE, FALSE,
                                      Some(IndexedAccessType(T, K)))>>)),
     Some(Conditional(K, Keyword("string"), IndexedAccessType(T, K), Keyword("number"))),
     Some(Tuple(<<IndexedAccessType(T, K), K>>))}

FewKeyofTemplates(T) == {None, Some(IndexedAccessType(T, K))}

\* A mapped type over `keyof T`, with every template and every modifier.
InKeyof(T) ==
    \E t \in KeyofTemplates(T), o \in Modifiers, r \in Modifiers :
        mapped_in = Mapped("K", Some(Operator("KeyOf", T)), t, o, r)

InitMapped ==
    /\ ImportIdle
    /\ BinderIdle
    /\ EnvIdle
    /\ KeyofIdle
    /\ mapped_out = Outcome(None, "none")
    /\ mapped_again = Outcome(None, "none")
    /\ symbols = SymbolTable
    /\ \/ /\ mapped_pc = "expand"
          /\ \/ \E c \in PlainConstraints, t \in PlainTemplates, o \in Modifiers, r \in Modifiers :
                    mapped_in = Mapped("K", Some(c), t, o, r)
             \/ \E s \in NonEmptySeqsUpTo(LiteralTypes, MaxOperands), t \in PlainTemplates,
                   f \in FewModifiers :
                    mapped_in = Mapped("K", Some(Union(s)), t, f[1], f[2])
             \/ \E t \in PlainTemplates : mapped_in = Mapped("K", None, t, None, None)
             \/ \E s \in SeqsUpTo(Elements, MaxMembers) : InKeyof(TypeLit(s))
             \/ \E T \in OtherOperands : InKeyof(T)
             \/ \E k \in 2..MaxOperands : \E s \in [1..k -> Parts], kind \in {"Union", "Intersection"},
                   f \in FewModifiers :
                    \E t \in FewKeyofTemplates(Composite(kind, s)) :
                        mapped_in = Mapped("K", Some(Operator("KeyOf", Composite(kind, s))),
                                           t, f[1], f[2])
       \/ /\ mapped_pc = "names"
          /\ \/ \E s \in SeqsUpTo(Elements, MaxMembers) : mapped_in = TypeLit(s)
             \/ mapped_in \in OtherOperands
             \/ \E k \in 2..MaxOperands : \E s \in [1..k -> Parts], kind \in {"Union", "Intersection"} :
                    mapped_in = Composite(kind, s)

NextMapped ==
    \/ ExpandMapped
    \/ ExpandMappedAgain
    \/ GetPropertyNames

SpecMapped == InitMapped /\ [][NextMapped]_vars

\* Operands of `keyof` that are type parameters, with the constraints written
\* out as types.
ParamOperands ==
    {Param("T", None), Param("T", Some(TypeLit(<<A1, B1>>))),
     Param("T", Some(Array(Keyword("number")))), Param("T", Some(Keyword("string"))),
     Param("T", Some(Param("U", None))), Param("T", Some(Param("U", Some(Ref("Obj"))))),
     Param("T", Some(Param("U", Some(Param("T", None))))),
     Param("T", Some(Ref("Base"))), Ref("Obj"), TypeLit(<<A1>>), Keyword("string")}

\* Operands whose constraints are references resolved by CircularSymbolTable.
CircularOperands ==
    {Ref("P"), Ref("S"), Param("T", Some(Ref("Q"))), Param("S", Some(Ref("S")))}

\* expand_mapped_inner has just called expand_mapped_type_with_keyof(span, T, m)
\* for m = `{ [K in keyof T]: X }`.
InitKeyof ==
    /\ ImportIdle
    /\ BinderIdle
    /\ EnvIdle
    /\ mapped_pc = "idle"
    /\ mapped_out = Outcome(None, "none")
    /\ mapped_again = Outcome(None, "none")
    /\ keyof_ret = Outcome(None, "none")
    /\ keyof_pc = "call"
    /\ \/ symbols = SymbolTable /\ \E T \in ParamOperands : InKeyof(T)
       \/ symbols = CircularSymbolTable /\ \E T \in ParamOperands \cup CircularOperands : InKeyof(T)
    /\ call_stack = <<mapped_in.type_param.constraint[1].ty>>

NextKeyof ==
    \/ KeyofCall
    \/ KeyofRecurse
    \/ KeyofReturn
    \/ KeyofDone

SpecKeyof == InitKeyof /\ [][NextKeyof]_vars

-----------------------------------------------------------------------------
(* Properties of load_normal_imports (checked under Spec) *)

\* The result of the run when the sequential executor maps the closure.
SequentialOutcome == LoadNormalImportsSequential(<<>>, <<>>, <<>>)

\* C1: when load_normal_imports has returned, the resolved-dependency cache and
\* the sequence of diagnostics reported to Storage are those the sequential
\* executor produces from the same edges and Loader answers, in whatever order
\* the parallel load_non_circular_dep calls finished.
C1_OrderIndependent ==
    pc = "done" =>
        /\ imports = SequentialOutcome.imports
        /\ diags = SequentialOutcome.diags

\* Two normal edges of one (consumer, dependency) pair loaded different export
\* tables, the second finished first, and the run is over.
C1_Witness ==
    /\ pc = "done"
    /\ Len(import_results) >= 2
    /\ finished_order[1] = 2
    /\ import_results[1].res.ok /\ import_results[2].res.ok
    /\ import_results[1].ctxt = import_results[2].ctxt
    /\ import_results[1].dep_id = import_results[2].dep_id
    /\ import_results[1].res.val # import_results[2].res.val
    /\ imports[<<import_results[1].ctxt, import_results[1].dep_id>>] = import_results[1].res.val

\* The insert_import_info calls made so far for the pair k.
InsertsFor(k) ==
    SelectSeq(insert_calls, LAMBDA c : <<c.ctxt, c.dep_id>> = k)

\* C2: the cache holds an entry exactly for the pairs insert_import_info was called
\* for, and the entry of a pair is the value of the first call for that pair: a
\* later call for the pair changes nothing, and no entry is removed or replaced.
C2_FirstWriteWins ==
    /\ DOMAIN imports = {<<insert_calls[j].ctxt, insert_calls[j].dep_id>> : j \in DOMAIN insert_calls}
    /\ \A k \in DOMAIN imports : imports[k] = InsertsFor(k)[1].ty

\* A second insert for a pair carried a different export table and was discarded.
C2_Witness ==
    /\ Len(insert_calls) >= 2
    /\ insert_calls[1].ctxt = insert_calls[2].ctxt
    /\ insert_calls[1].dep_id = insert_calls[2].dep_id
    /\ insert_calls[1].ty # insert_calls[2].ty
    /\ imports[<<insert_calls[1].ctxt, insert_calls[1].dep_id>>] = insert_calls[1].ty

\* C3: every step that changes the cache is a step of the merge loop, taken when
\* every worker of the parallel phase has finished; the merge loop is one thread,
\* so a step writes at most the one pair of the result it merges.
C3_CacheWrittenOnlyInMerge ==
    [][imports' # imports =>
        /\ pc = "merge"
        /\ \A k \in DOMAIN worker : worker[k] = "done"
        /\ idx' = idx + 1
        /\ DOMAIN imports' = DOMAIN imports \cup
              {<<import_results[idx].ctxt, import_results[idx].dep_id>>}]_vars

\* A worker has returned an export table while another is still running, and the
\* cache is still empty.
C3_Witness ==
    /\ pc = "load"
    /\ \E k \in DOMAIN worker : worker[k] = "done" /\ import_results[k].res.ok
    /\ \E k \in DOMAIN worker : worker[k] = "running"
    /\ imports = <<>>

-----------------------------------------------------------------------------
(* More properties of load_normal_imports (checked under Spec) *)

\* The number of the elements of seq that satisfy P.
CountIn(seq, P(_)) == Cardinality({j \in DOMAIN seq : P(seq[j])})

\* The edges the resolver loop has dealt with.
ResolvedEdges == IF pc = "resolve" THEN 1..(idx - 1) ELSE DOMAIN edges

\* C15: in the resolver loop an edge the Loader cannot map to a ModuleId gives
\* one ModuleNotFound with the edge's span and is dropped; an edge in the
\* consumer's circular group is dropped without a diagnostic; every other edge
\* becomes a normal edge; load_non_circular_dep is called for normal edges only;
\* the edges after a dropped edge are processed all the same.
C15_ResolverOutcomes ==
    pc \in {"resolve", "load"} =>
        /\ \A i \in ResolvedEdges :
              LET reported == CountIn(diags, LAMBDA d : d = ModuleNotFound(DeclSpan(i)))
                  normal == CountIn(normal_imports, LAMBDA n : n.import = i)
              IN  CASE loader[i].module_id = NoModule -> reported = 1 /\ normal = 0
                    [] loader[i].circular -> reported = 0 /\ normal = 0
                    [] OTHER -> reported = 0 /\ normal = 1
        /\ Len(diags) + Len(normal_imports)
              + Cardinality({i \in ResolvedEdges :
                                loader[i].module_id # NoModule /\ loader[i].circular})
              = Cardinality(ResolvedEdges)
        /\ pc = "load" =>
              /\ DOMAIN import_results = DOMAIN normal_imports
              /\ \A k \in DOMAIN import_results :
                    import_results[k] # Pending =>
                        /\ import_results[k].import = normal_imports[k].import
                        /\ import_results[k].res = loader[normal_imports[k].import].load

C15_Witness ==
    /\ pc = "load"
    /\ Len(edges) = 2
    /\ loader[1].module_id = NoModule
    /\ loader[2].module_id # NoModule
    /\ ~loader[2].circular
    /\ diags = <<ModuleNotFound(DeclSpan(1))>>
    /\ Len(normal_imports) = 1
    /\ normal_imports[1].import = 2
    /\ import_results[1] # Pending

\* The load results the merge loop has dealt with.
MergedResults ==
    SubSeq(import_results, 1, IF pc = "merge" THEN idx - 1 ELSE Len(import_results))

\* The diagnostics reported after the resolver loop.
MergeDiags ==
    SubSeq(diags, Cardinality({i \in DOMAIN edges : loader[i].module_id = NoModule}) + 1,
           Len(diags))

LoadFailed(r) == ~r.res.ok

LoadSucceeded(r) == r.res.ok

\* C16: a failed load_non_circular_dep makes the merge loop report one
\* ModuleNotFound for its edge and insert nothing for it; the results of the
\* other edges are merged all the same: every load result gives either an
\* insert_import_info call or a reported diagnostic, in the order of the edges.
C16_LoadFailureReported ==
    (pc \in {"merge", "done"} /\ ~is_builtin) =>
        LET failed == SelectSeq(MergedResults, LoadFailed)
            loaded == SelectSeq(MergedResults, LoadSucceeded)
        IN  /\ MergeDiags = [k \in DOMAIN failed |-> ModuleNotFound(DeclSpan(failed[k].import))]
            /\ insert_calls = [k \in DOMAIN loaded |->
                                 [ctxt |-> loaded[k].ctxt, dep_id |-> loaded[k].dep_id,
                                  ty |-> loaded[k].res.val]]
            /\ \A k \in DOMAIN loaded : <<loaded[k].ctxt, loaded[k].dep_id>> \in DOMAIN imports
            /\ DOMAIN imports = {<<loaded[k].ctxt, loaded[k].dep_id>> : k \in DOMAIN loaded}

C16_Witness ==
    /\ pc = "done"
    /\ ~is_builtin
    /\ Len(import_results) = 2
    /\ ~import_results[1].res.ok
    /\ import_results[2].res.ok
    /\ diags = <<ModuleNotFound(DeclSpan(import_results[1].import))>>
    /\ DOMAIN imports = {<<import_results[2].ctxt, import_results[2].dep_id>>}

\* The normal edges: resolved by the Loader and not in the consumer's circular
\* group.
NormalEdges ==
    {i \in DOMAIN edges : loader[i].module_id # NoModule /\ ~loader[i].circular}

\* The normal edges of the pair p = <<consumer, dependency>> whose load succeeded.
LoadedEdgesOf(p) ==
    {i \in NormalEdges : /\ <<edges[i].ctxt, loader[i].module_id>> = p
                         /\ loader[i].load.ok}

\* C25: after load_normal_imports, load_non_circular_dep has run once for every
\* normal edge, edges of the same (consumer, dependency) pair included, each
\* with its own result; a pair none of whose edges loaded has no cache entry,
\* and the cache entry of every other pair is the export table of the first of
\* its edges, in edge order, whose load succeeded.
C25_FailedLoadTakesNoSlot ==
    (pc = "done" /\ ~is_builtin) =>
        /\ Len(normal_imports) = Cardinality(NormalEdges)
        /\ {normal_imports[k].import : k \in DOMAIN normal_imports} = NormalEdges
        /\ Len(finished_order) = Len(normal_imports)
        /\ {finished_order[k] : k \in DOMAIN finished_order} = DOMAIN normal_imports
        /\ \A k \in DOMAIN import_results :
              import_results[k].res = loader[normal_imports[k].import].load
        /\ \A p \in Consumers \X ModuleIds :
              IF LoadedEdgesOf(p) = {}
              THEN p \notin DOMAIN imports
              ELSE /\ p \in DOMAIN imports
                   /\ \E i \in LoadedEdgesOf(p) :
                         /\ \A i2 \in LoadedEdgesOf(p) : i <= i2
                         /\ imports[p] = loader[i].load.val

\* Two normal edges of one pair: the load of the first failed, the load of the
\* second succeeded, and the cache holds the second's export table.
C25_Witness ==
    /\ pc = "done"
    /\ Len(normal_imports) = 2
    /\ normal_imports[1].ctxt = normal_imports[2].ctxt
    /\ normal_imports[1].dep_id = normal_imports[2].dep_id
    /\ ~import_results[1].res.ok
    /\ import_results[2].res.ok
    /\ Len(finished_order) = 2
    /\ imports[<<normal_imports[2].ctxt, normal_imports[2].dep_id>>] = import_results[2].res.val

-----------------------------------------------------------------------------
(* Properties of the binder (checked under SpecBind) *)

\* The external name a Named or Default specifier asks for.
OrigOf(sp) ==
    IF sp.kind = "Default" THEN "default"
    ELSE IF sp.imported = <<>> THEN sp.local ELSE sp.imported[1]

\* The number of reported diagnostics that satisfy P.
DiagCount(P(_)) == Cardinality({n \in DOMAIN diags : P(diags[n])})

\* The Loader cannot resolve the specifier of declaration d.
Unresolvable(d) == loader[d].module_id = NoModule

\* The module handle_import is given as target for declaration d: the
\* dependency when it resolved and is in the cache, the consumer itself if not.
TargetOf(d) ==
    IF \/ Unresolvable(d)
       \/ <<edges[d].ctxt, loader[d].module_id>> \notin DOMAIN imports
    THEN edges[d].ctxt
    ELSE loader[d].module_id

\* declare_var was asked to bind the local name of specifier j of declaration d
\* to ty.
AskedToBind(d, j, ty) ==
    \E n \in DOMAIN declare_calls :
        declare_calls[n] \in {[span |-> SpecifierSpan(d, j), name |-> decls[d][j].local,
                               ty |-> ty, ok |-> ok] : ok \in BOOLEAN}

\* C4: for a validated import declaration whose specifier the Loader cannot
\* resolve, the run has reported exactly one ModuleNotFound for the declaration
\* and no ImportFailed for its specifiers, and every specifier's local name was
\* bound to any.
C4_OneModuleNotFound ==
    \A d \in DOMAIN decls :
        Unresolvable(d) =>
            /\ DiagCount(LAMBDA e : e = ModuleNotFound(DeclSpan(d))) = 1
            /\ DiagCount(LAMBDA e : e.kind = "ImportFailed" /\ e.span[1] = d) = 0
            /\ \A j \in DOMAIN decls[d] : AskedToBind(d, j, AnyType)

\* C5: for a Named or Default specifier of a validated declaration:
\* (a) when the dependency resolved to another module, is in the cache, and the
\*     name asked for is in neither the vars nor the types of its export table,
\*     handle_import hands declare_var and register_type the type any for the
\*     local name, adds it to unresolved_imports, and has reported exactly one
\*     ImportFailed for the specifier, carrying the external and the local name;
\* (b) when handle_import's target is the consumer itself, no ImportFailed is
\*     reported for the specifier.
C5_ImportFailedOnMiss ==
    \A d \in DOMAIN decls : \A j \in DOMAIN decls[d] :
        LET sp == decls[d][j]
            ctxt == edges[d].ctxt
            target == TargetOf(d)
            span == SpecifierSpan(d, j)
        IN  sp.kind \in {"Named", "Default"} =>
              /\ ( /\ target # ctxt
                   /\ OrigOf(sp) \notin DOMAIN imports[<<ctxt, target>>].vars
                   /\ OrigOf(sp) \notin DOMAIN imports[<<ctxt, target>>].types )
                 => /\ AskedToBind(d, j, AnyType)
                    /\ \E n \in DOMAIN type_regs :
                          type_regs[n] = [name |-> sp.local, ty |-> AnyType]
                    /\ sp.local \in unresolved_imports
                    /\ DiagCount(LAMBDA e : e = ImportFailed(span, OrigOf(sp), sp.local)) = 1
                    /\ DiagCount(LAMBDA e : e.kind = "ImportFailed" /\ e.span = span) = 1
              /\ target = ctxt
                 => DiagCount(LAMBDA e : e.kind = "ImportFailed" /\ e.span = span) = 0

\* A declaration of two named specifiers from a module that resolved and is in
\* the cache: both names are missing from its export table, and an ImportFailed
\* was reported for the second.
C5_Witness ==
    /\ Len(decls) >= 1
    /\ Len(decls[1]) = 2
    /\ decls[1][2].kind = "Named"
    /\ TargetOf(1) # edges[1].ctxt
    /\ OrigOf(decls[1][2]) \notin DOMAIN imports[<<edges[1].ctxt, TargetOf(1)>>].vars
    /\ OrigOf(decls[1][2]) \notin DOMAIN imports[<<edges[1].ctxt, TargetOf(1)>>].types
    /\ \E n \in DOMAIN diags :
          diags[n] = ImportFailed(SpecifierSpan(1, 2), OrigOf(decls[1][2]), decls[1][2].local)

\* C6: for a namespace specifier of a validated declaration whose specifier the
\* Loader resolves to the consumer's own ModuleId, declare_var was called for it,
\* every such call was handed the type any, and a name the call bound is bound
\* to any.
C6_NamespaceSelfImportIsAny ==
    \A d \in DOMAIN decls : \A j \in DOMAIN decls[d] :
        (decls[d][j].kind = "Namespace" /\ loader[d].module_id = edges[d].ctxt) =>
            /\ \E n \in DOMAIN declare_calls : declare_calls[n].span = SpecifierSpan(d, j)
            /\ \A n \in DOMAIN declare_calls :
                  declare_calls[n].span = SpecifierSpan(d, j) =>
                      /\ declare_calls[n].name = decls[d][j].local
                      /\ declare_calls[n].ty = AnyType
                      /\ declare_calls[n].ok => scope_vars[decls[d][j].local] = AnyType

\* `import * as a from <the module itself>` was validated while the cache holds
\* an export table for the pair (consumer, consumer), and a was bound.
C6_Witness ==
    /\ Len(decls) >= 1
    /\ \E j \in DOMAIN decls[1] :
          /\ decls[1][j].kind = "Namespace"
          /\ loader[1].module_id = edges[1].ctxt
          /\ <<edges[1].ctxt, edges[1].ctxt>> \in DOMAIN imports
          /\ imports[<<edges[1].ctxt, edges[1].ctxt>>].tag = "Module"
          /\ \E n \in DOMAIN declare_calls :
                declare_calls[n].span = SpecifierSpan(1, j) /\ declare_calls[n].ok

\* get_imported_items misses for declaration d: the Loader cannot resolve the
\* specifier, or the resolved-dependency cache has no entry for the pair.
ResolutionMisses(d) ==
    \/ Unresolvable(d)
    \/ <<edges[d].ctxt, loader[d].module_id>> \notin DOMAIN imports

\* C17: for a validated import declaration whose module resolution misses,
\* every specifier, namespace specifiers included, had its local name handed to
\* declare_var with the type any, and the local name is in unresolved_imports.
C17_MissRegistersEverySpecifier ==
    \A d \in DOMAIN decls :
        ResolutionMisses(d) =>
            \A j \in DOMAIN decls[d] :
                /\ AskedToBind(d, j, AnyType)
                /\ decls[d][j].local \in unresolved_imports

\* The specifiers <<d, j>> of the declarations validated so far.
ValidatedSpecifiers ==
    {p \in {<<d, j>> : d \in DOMAIN decls, j \in 1..MaxSpecifiers} :
        p[2] \in DOMAIN decls[p[1]]}

\* The Named and Default specifiers <<d, j>> validated so far, whose
\* declaration handle_import had the dependency's export table for.
HitSpecifiers ==
    {p \in ValidatedSpecifiers :
        /\ decls[p[1]][p[2]].kind \in {"Named", "Default"}
        /\ TargetOf(p[1]) # edges[p[1]].ctxt}

\* The export table handle_import looks specifier p up in.
TableOf(p) == imports[<<edges[p[1]].ctxt, TargetOf(p[1])>>]

\* The vars and the types the export table holds under exactly the external
\* name of specifier p.
MatchedVars(p) ==
    IF OrigOf(decls[p[1]][p[2]]) \in DOMAIN TableOf(p).vars THEN 1 ELSE 0
MatchedTypes(p) ==
    IF OrigOf(decls[p[1]][p[2]]) \in DOMAIN TableOf(p).types
    THEN Len(TableOf(p).types[OrigOf(decls[p[1]][p[2]])]) ELSE 0

\* The specifiers of HitSpecifiers that bind the same local name in the same
\* module as p.
SameLocal(p) ==
    {q \in HitSpecifiers : /\ decls[q[1]][q[2]].local = decls[p[1]][p[2]].local
                           /\ edges[q[1]].ctxt = edges[p[1]].ctxt}

\* C18: for a Named or Default specifier whose declaration resolved to a cached
\* dependency: the private vars stored under its local name are one per
\* specifier of that local name whose external name is a var of the table (never
\* more than one per specifier), each with the type the table holds under the
\* external name; the private types stored under the local name are all the
\* types the table holds under the external name; and when a var or a type
\* matched, no diagnostic carries the specifier's span, declare_var was not
\* called for it, and its local name is in unresolved_imports only if another
\* specifier binding the same name missed.
C18_HitBindsByExactName ==
    \A p \in HitSpecifiers :
        LET sp == decls[p[1]][p[2]]
            ctxt == edges[p[1]].ctxt
            span == SpecifierSpan(p[1], p[2])
            stored_vars == {n \in DOMAIN private_vars :
                               private_vars[n].ctxt = ctxt /\ private_vars[n].id = sp.local}
            stored_types == {n \in DOMAIN private_types :
                               private_types[n].ctxt = ctxt /\ private_types[n].id = sp.local}
        IN  /\ MatchedVars(p) <= 1
            /\ Cardinality(stored_vars) = Cardinality({q \in SameLocal(p) : MatchedVars(q) = 1})
            /\ \A n \in stored_vars :
                  \E q \in SameLocal(p) :
                      /\ MatchedVars(q) = 1
                      /\ private_vars[n].ty = TableOf(q).vars[OrigOf(decls[q[1]][q[2]])]
            /\ Cardinality(stored_types) =
                  Cardinality(UNION {{<<q, t>> : t \in 1..MatchedTypes(q)} : q \in SameLocal(p)})
            /\ \A t \in 1..MatchedTypes(p) :
                  \E n \in stored_types :
                      private_types[n].ty = TableOf(p).types[OrigOf(sp)][t]
            /\ MatchedVars(p) + MatchedTypes(p) > 0 =>
                  /\ \A n \in DOMAIN diags : diags[n].span # span
                  /\ \A n \in DOMAIN declare_calls : declare_calls[n].span # span
                  /\ sp.local \in unresolved_imports =>
                        \E q \in ValidatedSpecifiers :
                            /\ decls[q[1]][q[2]].kind \in {"Named", "Default"}
                            /\ decls[q[1]][q[2]].local = sp.local
                            /\ q \in HitSpecifiers => MatchedVars(q) + MatchedTypes(q) = 0

\* `import { x }` (or `import { x as a }`) from a cached dependency that exports
\* the var x and two types named x: one private var and two private types are
\* stored under the local name, and nothing was reported.
C18_Witness ==
    /\ Len(decls) >= 1
    /\ Len(decls[1]) = 1
    /\ <<1, 1>> \in HitSpecifiers
    /\ MatchedVars(<<1, 1>>) = 1
    /\ MatchedTypes(<<1, 1>>) = 2
    /\ Len(private_vars) = 1
    /\ Len(private_types) = 2
    /\ diags = <<>>
    /\ unresolved_imports = {}

\* The Loader resolves the specifier of declaration d, and the cache has no
\* entry for the pair (consumer, resolved ModuleId).
ResolvedButNotCached(d) ==
    /\ ~Unresolvable(d)
    /\ <<edges[d].ctxt, loader[d].module_id>> \notin DOMAIN imports

\* The ModuleNotFound diagnostics the merge loop of load_normal_imports reported
\* for edge d: one if the edge was a normal edge whose load failed.
ReportedByMerge(d) ==
    IF ~is_builtin /\ ~loader[d].circular /\ ~loader[d].load.ok THEN 1 ELSE 0

\* C24: for a validated declaration whose specifier resolved to a ModuleId for
\* which the cache has no entry, get_imported_items has reported one
\* ModuleNotFound with the declaration's span (in addition to the one of a
\* failed load), no ImportFailed was reported for the declaration, every
\* specifier's local name was handed to declare_var with the type any and none
\* with another type, and the local name of every Named and Default specifier
\* is in unresolved_imports.
C24_UncachedDependencyIsAMiss ==
    \A d \in DOMAIN decls :
        ResolvedButNotCached(d) =>
            /\ DiagCount(LAMBDA e : e = ModuleNotFound(DeclSpan(d))) = 1 + ReportedByMerge(d)
            /\ DiagCount(LAMBDA e : e.kind = "ImportFailed" /\ e.span[1] = d) = 0
            /\ \A j \in DOMAIN decls[d] :
                  /\ AskedToBind(d, j, AnyType)
                  /\ \A n \in DOMAIN declare_calls :
                        declare_calls[n].span = SpecifierSpan(d, j) =>
                            declare_calls[n].ty = AnyType
                  /\ decls[d][j].kind \in {"Named", "Default"} =>
                        decls[d][j].local \in unresolved_imports

\* `import { x as a }` from a module the Loader resolves and reports as being
\* in the consumer's circular group: nothing was loaded for it, one
\* ModuleNotFound was reported, and a is an unresolved import.
C24_Witness ==
    /\ Len(decls) >= 1
    /\ ResolvedButNotCached(1)
    /\ loader[1].circular
    /\ ~is_builtin
    /\ Len(decls[1]) = 1
    /\ decls[1][1].kind = "Named"
    /\ diags = <<ModuleNotFound(DeclSpan(1))>>
    /\ unresolved_imports = {decls[1][1].local}

-----------------------------------------------------------------------------
(* Properties of mapped-type expansion (checked under SpecMapped) *)

\* The constraint of the mapped type handed to expand_mapped is `keyof T`.
IsKeyof ==
    /\ IsSome(mapped_in.type_param.constraint)
    /\ mapped_in.type_param.constraint[1].tag = "Operator"
    /\ mapped_in.type_param.constraint[1].op = "KeyOf"

KeyofOperand == mapped_in.type_param.constraint[1].ty

\* The template is T[K], for the operand T and the parameter K of the mapped type.
TemplateIsIndexedAccess ==
    mapped_in.ty = Some(IndexedAccessType(KeyofOperand, Param(mapped_in.type_param.name, None)))

\* A union of string, number and bigint literals.
LiteralKeyUnion(c) ==
    /\ c.tag = "Union"
    /\ \A i \in DOMAIN c.types :
          c.types[i].tag = "Lit" /\ c.types[i].lit \in {"Str", "Num", "BigInt"}

\* key is the key the literal type lit names.
KeyNames(key, lit) ==
    CASE lit.lit = "Str" -> key.k = "Normal" /\ key.sym = lit.value
      [] lit.lit = "Num" -> key.k = "Num" /\ key.value = lit.value
      [] lit.lit = "BigInt" -> key.k = "BigInt" /\ key.value = lit.value

\* C7: a mapped type whose constraint is a union k1|...|kn of literal keys expands
\* to a type literal with exactly n members, all of them properties, the i-th
\* keyed ki and typed by the template with the parameter replaced by the literal
\* type of ki (untyped when there is no template).
C7_LiteralUnionExpansion ==
    (/\ mapped_pc = "expanded"
     /\ IsSome(mapped_in.type_param.constraint)
     /\ LiteralKeyUnion(mapped_in.type_param.constraint[1]))
    => LET c == mapped_in.type_param.constraint[1]
           out == mapped_out.val
       IN  /\ IsSome(out)
           /\ out[1].tag = "TypeLit"
           /\ Len(out[1].members) = Len(c.types)
           /\ \A i \in DOMAIN c.types :
                 /\ out[1].members[i].el = "Property"
                 /\ KeyNames(out[1].members[i].key, c.types[i])
                 /\ out[1].members[i].type_ann =
                       IF mapped_in.ty = None THEN None
                       ELSE Some(expand_type_params(mapped_in.type_param.name, c.types[i],
                                                    mapped_in.ty[1]))

C7_Witness ==
    /\ mapped_pc = "expanded"
    /\ mapped_in.type_param.constraint = Some(Union(<<StrLit(2, "b"), NumLit(4, "1")>>))
    /\ mapped_in.ty = Some(Array(K))
    /\ Len(mapped_out.val[1].members) = 2
    /\ mapped_out.val[1].members[1].key.sym = "b"
    /\ mapped_out.val[1].members[2].type_ann = Some(Array(NumLit(4, "1")))

\* The keys of the members of the given kinds, in a list of members.
KeysOfKind(members, kinds) ==
    {members[i].key : i \in {j \in DOMAIN members : members[j].el \in kinds}}

\* C8: for a type literal T, {[K in keyof T]: T[K]} expands to a type literal
\* whose property keys are exactly the property and method keys of T; the call
\* and constructor signatures of T give no member.
C8_IdentityLaw ==
    (/\ mapped_pc = "expanded"
     /\ IsKeyof
     /\ normalize(KeyofOperand).tag = "TypeLit"
     /\ TemplateIsIndexedAccess)
    => LET T == normalize(KeyofOperand)
           out == mapped_out.val
       IN  /\ IsSome(out)
           /\ out[1].tag = "TypeLit"
           /\ KeysOfKind(out[1].members, {"Property"}) =
                 KeysOfKind(T.members, {"Property", "Method"})
           /\ \A i \in DOMAIN out[1].members : out[1].members[i].el \in {"Property", "Index"}
           /\ Len(out[1].members) =
                 Cardinality({j \in DOMAIN T.members :
                                T.members[j].el \in {"Property", "Method", "Index"}})

C8_Witness ==
    /\ mapped_pc = "expanded"
    /\ IsKeyof
    /\ TemplateIsIndexedAccess
    /\ KeyofOperand = TypeLit(<<MethodSignature(NormalKey(24, "m"), FALSE, FALSE), CallSignature>>)
    /\ Len(mapped_out.val[1].members) = 1
    /\ mapped_out.val[1].members[1].el = "Property"
    /\ mapped_out.val[1].members[1].key = NormalKey(24, "m")

IsSet(modifier) == modifier \in {Some("True"), Some("Plus")}

\* C9: when the keys of T can be extracted, {readonly [K in keyof T]?: T[K]}
\* expands to a type literal whose properties are all readonly and optional and
\* whose index signatures are all readonly; a minus modifier makes the flag false
\* on every member; without a readonly modifier an index signature keeps the
\* readonly flag stored in T.
C9_FlagsOnEveryMember ==
    (/\ mapped_pc = "expanded"
     /\ IsKeyof
     /\ TemplateIsIndexedAccess
     /\ IsSome(get_property_names_for_mapped_type(KeyofOperand)))
    => LET keys == get_property_names_for_mapped_type(KeyofOperand)[1]
           out == mapped_out.val
       IN  /\ IsSome(out)
           /\ out[1].tag = "TypeLit"
           /\ Len(out[1].members) = Len(keys)
           /\ \A i \in DOMAIN out[1].members :
                 LET el == out[1].members[i] IN
                 IF el.el = "Property"
                 THEN /\ IsSet(mapped_in.readonly) => el.readonly
                      /\ IsSet(mapped_in.optional) => el.optional
                      /\ mapped_in.readonly = Some("Minus") => ~el.readonly
                      /\ mapped_in.optional = Some("Minus") => ~el.optional
                 ELSE /\ el.el = "Index"
                      /\ IsSet(mapped_in.readonly) => el.readonly
                      /\ mapped_in.readonly = Some("Minus") => ~el.readonly
                      /\ mapped_in.readonly = None =>
                            keys[i].pn = "IndexSignature" /\ el.readonly = keys[i].readonly

C9_Witness ==
    /\ mapped_pc = "expanded"
    /\ IsKeyof
    /\ TemplateIsIndexedAccess
    /\ KeyofOperand = TypeLit(<<A1, IndexSignature(25, <<Keyword("string")>>, FALSE,
                                                   Some(Keyword("number")))>>)
    /\ mapped_in.readonly = Some("True")
    /\ mapped_in.optional = Some("True")
    /\ mapped_out.val[1].members[1].readonly
    /\ mapped_out.val[1].members[1].optional
    /\ mapped_out.val[1].members[2].readonly

\* The property and method keys of a type literal and its index signatures,
\* source positions erased.
KeyNameSet(T) ==
    {[T.members[i].key EXCEPT !.span = MappedSpan] :
        i \in {j \in DOMAIN T.members : T.members[j].el \in {"Property", "Method"}}}
    \cup {[params |-> StripElement(T.members[i]).params] :
            i \in {j \in DOMAIN T.members : T.members[j].el = "Index"}}

DisjointTypeLits(ty) ==
    /\ ty.tag = "Intersection"
    /\ Len(ty.types) = 2
    /\ normalize(ty.types[1]).tag = "TypeLit"
    /\ normalize(ty.types[2]).tag = "TypeLit"
    /\ KeyNameSet(normalize(ty.types[1])) \cap KeyNameSet(normalize(ty.types[2])) = {}

\* The keys of the first operand of an intersection that every other operand
\* with extractable keys has too, source positions ignored.
RetainedKeys(ty) ==
    LET keys_types == [i \in DOMAIN ty.types |-> get_property_names_for_mapped_type(ty.types[i])]
        has(item) == \A i \in 2..Len(keys_types) :
                        \/ keys_types[i] = None
                        \/ \E j \in DOMAIN keys_types[i][1] :
                              property_name_type_eq(keys_types[i][1][j], item)
    IN  IF keys_types = <<>> THEN <<>> ELSE SelectSeq(Concat(keys_types[1]), has)

\* C10: key extraction fails (None, not an empty list) on an intersection of two
\* type literals with disjoint key sets, and on every intersection whose retained
\* key set is empty; a mapped type over keyof of such an intersection is not
\* expanded from extracted keys.
C10_EmptyIntersectionFails ==
    /\ (mapped_pc = "named" /\ DisjointTypeLits(mapped_in)) => mapped_out.val = None
    /\ (mapped_pc = "named" /\ mapped_in.tag = "Intersection" /\ RetainedKeys(mapped_in) = <<>>)
          => mapped_out.val = None
    /\ (/\ mapped_pc = "expanded"
        /\ IsKeyof
        /\ normalize(KeyofOperand).tag = "Intersection"
        /\ RetainedKeys(normalize(KeyofOperand)) = <<>>)
          => mapped_out.step # "keys"

C10_Witness ==
    /\ mapped_pc = "named"
    /\ mapped_in = Intersection(<<TypeLit(<<A1>>), TypeLit(<<B1>>)>>)
    /\ mapped_out.val = None

\* An array type, with or without a readonly qualifier.
IsArrayOperand(t) ==
    \/ t.tag = "Array"
    \/ t.tag = "Operator" /\ t.op = "ReadOnly" /\ t.ty.tag = "Array"

\* C11: when the normalized operand of keyof is an array type, readonly or not,
\* the expansion is the array of the template (of any without a template) and
\* not a type literal, whatever the optional and readonly modifiers are.
C11_ArrayOperand ==
    (/\ mapped_pc = "expanded"
     /\ IsKeyof
     /\ IsArrayOperand(normalize(KeyofOperand)))
    => /\ mapped_out.step = "array"
       /\ mapped_out.val =
             Some(Array(IF mapped_in.ty = None THEN Keyword("any") ELSE mapped_in.ty[1]))

C11_Witness ==
    /\ mapped_pc = "expanded"
    /\ IsKeyof
    /\ KeyofOperand = Operator("ReadOnly", Array(Keyword("string")))
    /\ mapped_in.ty = Some(Keyword("number"))
    /\ mapped_in.readonly = Some("True")
    /\ mapped_in.optional = Some("Minus")
    /\ mapped_out.val = Some(Array(Keyword("number")))

\* Structural equality of two Option<Type>.
SameResult(a, b) ==
    IF a = None \/ b = None THEN a = b ELSE type_eq(a[1], b[1])

RewriteApplied ==
    /\ mapped_pc \in {"expanded", "expanded_again"}
    /\ IsKeyof
    /\ normalize(KeyofOperand).tag # "Param"
    /\ mapped_out.step = "rewrite"

RECURSIVE OccursElsewhere(_, _, _)
\* The type parameter named key occurs in t somewhere else than as the index of
\* an indexed access obj[key].
OccursElsewhere(obj, key, t) ==
    CASE t.tag = "Param" /\ t.name = key -> TRUE
      [] t.tag = "IndexedAccessType" /\ is_indexed_access_of(obj, key, t) -> FALSE
      [] OTHER -> \E i \in DOMAIN Children(t) : OccursElsewhere(obj, key, Children(t)[i])

RECURSIVE ContainsIndexedAccess(_, _, _)
\* t contains, at any depth, an indexed access obj[key].
ContainsIndexedAccess(obj, key, t) ==
    \/ t.tag = "IndexedAccessType" /\ is_indexed_access_of(obj, key, t)
    \/ \E i \in DOMAIN Children(t) : ContainsIndexedAccess(obj, key, Children(t)[i])

\* C19: when the keyof-expansion of a mapped type `{ [K in keyof T]: X }`
\* returned through the indexed-access rewrite, K occurs in the template X only
\* as the index of T[K].
C19_RewriteOnlyWhenEveryUseIsIndex ==
    RewriteApplied =>
        ~OccursElsewhere(normalize(KeyofOperand), mapped_in.type_param.name, mapped_in.ty[1])

\* C20: when the keyof-expansion returned through the indexed-access rewrite,
\* the type returned contains no indexed access T[K], at any depth.
C20_RewriteLeavesNoIndexedAccess ==
    RewriteApplied =>
        ~ContainsIndexedAccess(normalize(KeyofOperand), mapped_in.type_param.name,
                               mapped_out.val[1])

\* The keys of s that no earlier key of s equals when source positions are
\* ignored, in the order of s.
FirstOccurrences(s) ==
    LET keep == {i \in DOMAIN s : \A j \in 1..(i - 1) : ~property_name_type_eq(s[j], s[i])}
        RECURSIVE from(_)
        from(i) == IF i > Len(s) THEN <<>>
                   ELSE IF i \in keep THEN <<s[i]>> \o from(i + 1) ELSE from(i + 1)
    IN  from(1)

\* The extraction result of every operand of a union or an intersection.
OperandKeys(ty) ==
    [i \in DOMAIN ty.types |-> get_property_names_for_mapped_type(ty.types[i])]

\* C21: key extraction on an intersection with at least one operand whose
\* extraction succeeds, and with some key of the first operand present (source
\* positions ignored) in every other operand that succeeded, returns those keys
\* of the first operand, in the first operand's order, each once.
C21_IntersectionKeys ==
    (/\ mapped_pc = "named"
     /\ mapped_in.tag = "Intersection"
     /\ \E i \in DOMAIN mapped_in.types : OperandKeys(mapped_in)[i] # None
     /\ RetainedKeys(mapped_in) # <<>>)
        => mapped_out.val = Some(FirstOccurrences(RetainedKeys(mapped_in)))

\* C22: key extraction on a union fails exactly when the extraction of every
\* operand fails; otherwise it returns the keys of the operands that succeeded,
\* in operand order, each key once at its first appearance.
C22_UnionKeys ==
    (mapped_pc = "named" /\ mapped_in.tag = "Union") =>
        LET keys_types == OperandKeys(mapped_in)
            all_fail == \A i \in DOMAIN keys_types : keys_types[i] = None
        IN  /\ mapped_out.val = None <=> all_fail
            /\ ~all_fail =>
                  mapped_out.val =
                      Some(FirstOccurrences(Concat([i \in DOMAIN keys_types |-> Concat(keys_types[i])])))

\* Key extraction on `T | { a; a }`: the type parameter fails, the type literal
\* gives the key a twice, and the union returns it once.
C22_Witness ==
    /\ mapped_pc = "named"
    /\ mapped_in = Union(<<Param("T", None), TypeLit(<<A1, A1>>)>>)
    /\ mapped_out.val = Some(<<PropertyNameKey(A1.key)>>)

\* C23: expand_mapped_type_with_keyof is never called again, inside one of its
\* own calls, with the operand of a call that has not returned yet; as a call
\* depends on its operand and on m only, a repeated operand is a recursion
\* without end.
C23_RecursionIsBounded ==
    \A i, j \in DOMAIN call_stack : i < j => call_stack[i] # call_stack[j]

\* The keyof-expansion of mapped_in ran on an operand from which no property
\* keys can be extracted and which, normalized, mentions a type parameter.
NoKeysAndTypeParam ==
    /\ mapped_pc \in {"expanded", "expanded_again"}
    /\ IsKeyof
    /\ get_property_names_for_mapped_type(normalize(KeyofOperand)) = None
    /\ TypeParamNameUsageFinder(normalize(KeyofOperand))

-----------------------------------------------------------------------------
(* Properties of the builtin environment (checked under SpecEnv) *)

CacheIoPanics ==
    {"failed to create directory for builtin cache", "failed to write builtin cache"}

\* C13: no failure of an I/O operation on the builtin cache ends from_ts_libs:
\* a call that was started returns a builtin, whether the cache file is missing,
\* unreadable or undecodable, and whether the directory and the file can be
\* written or not.
C13_CacheIoNeverFatal ==
    \A t \in DOMAIN env_pc :
        /\ env_panic[t] \notin CacheIoPanics
        /\ env_pc[t] = "done" => IsSome(env_builtin[t])

\* The set of the libraries in a libs argument.
LibSet(libs) == {libs[i] : i \in DOMAIN libs}

\* C14: for every interleaving of the callers, from_ts_libs is run at most once
\* per library set, and the callers of one set (lists that differ in order or in
\* repetitions are one set) all receive the same instance.
C14_ComputedOncePerSet ==
    /\ \A k \in DOMAIN runs : runs[k] <= 1
    /\ \A t1 \in DOMAIN env_pc, t2 \in DOMAIN env_pc :
          (/\ env_pc[t1] = "done"
           /\ env_pc[t2] = "done"
           /\ LibSet(env_libs[t1]) = LibSet(env_libs[t2]))
          => env_builtin[t1] = env_builtin[t2]

====
